---- MODULE Spec2Model ----
(***************************************************************************)
(* A model of the kaserve request pipeline: path resolution of the two     *)
(* static-file services, URL rewriting, access control, basic              *)
(* authentication, route and virtual-host pattern matching, and the        *)
(* per-request dispatcher.                                                 *)
(*                                                                         *)
(* Strings are sequences of one-character strings, except in the           *)
(* authenticator, where base64 needs byte values and a string is a         *)
(* sequence of code points.                                                *)
(***************************************************************************)
EXTENDS Integers, Sequences, FiniteSets, TLC

VARIABLES
  \* FileService / StaticFileHandler path resolution
  root_dir,        \* the configured document root (a PathBuf)
  spa,             \* ServeConfig.spa
  req_path,        \* the request path handed to the service, or None
  file_path,       \* StaticFileHandler::get_file_path's result, or None
  read_paths,      \* the paths FileService handed to fs::read, in order
  served_path,     \* the path whose content FileService returned, or None
  fs_seen,         \* what the filesystem answered for the request, or None
  http_response,   \* what server.rs handle_request returned, or None
  \* a Route under test (Route::new, Route::matches)
  route,           \* the Route, or None before Route::new
  match_path,      \* the path given to Route::matches, or None
  match_result,    \* what Route::matches returned, or None
  \* a VirtualHost under test (VirtualHost::new, VirtualHost::matches)
  vhost,           \* the VirtualHost, or None before VirtualHost::new
  hostname,        \* the hostname given to VirtualHost::matches, or None
  host_match,      \* what VirtualHost::matches returned, or None
  vhost_route,     \* what VirtualHost::match_route returned, or None
  \* the Router
  vhost_configs,   \* Router.config.virtual_hosts
  vhosts,          \* Router.vhosts
  default_routes,  \* Router.default_routes
  route_req,       \* the request given to Router::route, or None
  route_result,    \* what Router::route returned, or None
  consulted,       \* the route lists Router::route scanned, in order
  \* the Rewriter
  rewrite_rules,   \* Rewriter.rules
  rewrite_req,     \* the path of the request given to Rewriter::process, or None
  rewrite_out,  \* Some(what Rewriter::process returned), or None
  rewrite_trace,   \* the rules whose apply returned a result, with that result
  \* the Acl
  rules,           \* Acl.rules
  default_allow,   \* Acl.default_allow
  acl_req,         \* the request and client address given to check_access
  acl_result,      \* what Acl::check_access returned, or None
  \* the BasicAuthenticator
  credentials,     \* BasicAuthenticator.credentials: username -> password
  auth_header,     \* Some(the request's Authorization header, if any), or None
  auth_result,     \* what authenticate returned, or None
  \* StaticFileHandler::list_directory
  enable_listing,  \* StaticFileHandler.enable_directory_listing of the lister
  directory,       \* the entries of the directory, in the order read_dir yields them
  listing_req,     \* the request path given to list_directory, or None
  listing_result,  \* what list_directory returned, or None
  \* the response assembly of server.rs and of the static handler
  serve_config,   \* ServeConfig: compression, cache, cors and the custom headers
  asm_req,        \* the request whose file is being answered, or None
  asm_file,       \* the FileResponse read for it, or None
  asm_encoder,    \* whether the encoder worked, or None
  actix_response, \* what server.rs build_success_response returned, or None
  hyper_response, \* what StaticFileHandler::serve_file returned, or None
  \* a RewriteRule built by new, last and redirect
  built_rule,     \* the RewriteRule under construction, or None
  apply_path,     \* the path given to RewriteRule::apply, or None
  apply_result,   \* what RewriteRule::apply returned for it
  \* ConnectionHandler: one request at a time on the connection
  enable_directory_listing,  \* StaticFileHandler.enable_directory_listing
  disp_pc,         \* "idle", "received", "routed" or "done"
  disp_req,        \* the request being handled, or None
  disp_route,      \* route_result of handle_request, or None
  disp_fs,         \* what the filesystem answered the static handler, or None
  stages,          \* the pipeline stages run for the request, in order
  response         \* what handle_request returned, or None

\* Option<T>: None, or Some(x) holding x.
None == <<>>
Some(x) == <<x>>
unwrap(o) == o[1]

\* Result<T, E>
Ok(x) == [ok |-> TRUE, value |-> x]
Err(e) == [ok |-> FALSE, error |-> e]

pathVars ==
  <<root_dir, spa, req_path, file_path, read_paths, served_path, fs_seen,
    http_response>>

routeMatchVars == <<route, match_path, match_result>>
vhostVars == <<vhost, hostname, host_match, vhost_route>>
routerVars ==
  <<vhost_configs, vhosts, default_routes, route_req, route_result, consulted>>

rewriteVars == <<rewrite_rules, rewrite_req, rewrite_out, rewrite_trace>>

aclVars == <<rules, default_allow, acl_req, acl_result>>

authVars == <<credentials, auth_header, auth_result>>

listingVars == <<enable_listing, directory, listing_req, listing_result>>

assemblyVars == <<serve_config, asm_req, asm_file, asm_encoder, actix_response, hyper_response>>

buildVars == <<built_rule, apply_path, apply_result>>

dispVars ==
  <<enable_directory_listing, disp_pc, disp_req, disp_route, disp_fs, stages,
    response>>

vars == <<pathVars, routeMatchVars, vhostVars, routerVars, rewriteVars, aclVars,
          authVars, listingVars,
          assemblyVars,
          buildVars,
          dispVars>>

\* What each component leaves alone.
notPath ==
  <<routeMatchVars, vhostVars, routerVars, rewriteVars, aclVars, authVars,
    dispVars, listingVars, assemblyVars, buildVars>>
notRouteMatch ==
  <<pathVars, vhostVars, routerVars, rewriteVars, aclVars, authVars, dispVars,
    listingVars, assemblyVars, buildVars>>
notVhost ==
  <<pathVars, routeMatchVars, routerVars, rewriteVars, aclVars, authVars,
    dispVars, listingVars, assemblyVars, buildVars>>
notRouter ==
  <<pathVars, routeMatchVars, vhostVars, rewriteVars, aclVars, authVars,
    dispVars, listingVars, assemblyVars, buildVars>>
notRewrite ==
  <<pathVars, routeMatchVars, vhostVars, routerVars, aclVars, authVars,
    dispVars, listingVars, assemblyVars, buildVars>>
notAcl ==
  <<pathVars, routeMatchVars, vhostVars, routerVars, rewriteVars, authVars,
    dispVars, listingVars, assemblyVars, buildVars>>
\* The dispatcher reads the router and the handler's root.
notDisp ==
  <<routeMatchVars, vhostVars, rewriteVars, aclVars, authVars, listingVars,
    assemblyVars, buildVars>>
notAuth ==
  <<pathVars, routeMatchVars, vhostVars, routerVars, rewriteVars, aclVars,
    dispVars, listingVars, assemblyVars, buildVars>>
notListing ==
  <<pathVars, routeMatchVars, vhostVars, routerVars, rewriteVars, aclVars,
    authVars, dispVars, assemblyVars, buildVars>>
notAssembly ==
  <<pathVars, routeMatchVars, vhostVars, routerVars, rewriteVars, aclVars,
    authVars, listingVars, dispVars, buildVars>>
notBuild ==
  <<pathVars, routeMatchVars, vhostVars, routerVars, rewriteVars, aclVars,
    authVars, listingVars, assemblyVars, dispVars>>

(***************************************************************************)
(* Strings                                                                 *)
(***************************************************************************)

\* All sequences over S of length at most n.
SeqsUpTo(S, n) == UNION {[1..k -> S] : k \in 0..n}

\* str::starts_with
starts_with(s, p) == Len(s) >= Len(p) /\ SubSeq(s, 1, Len(p)) = p

\* The rest of s from position i on.
Tail_from(s, i) == SubSeq(s, i, Len(s))

\* str::trim_start_matches(char): every leading occurrence is removed.
RECURSIVE trim_start_matches_char(_, _)
trim_start_matches_char(s, c) ==
  IF s # <<>> /\ Head(s) = c THEN trim_start_matches_char(Tail(s), c) ELSE s

\* str::split(sep) for a one-character separator: the pieces, empty ones kept.
RECURSIVE split_char(_, _, _)
split_char(s, sep, cur) ==
  IF s = <<>> THEN <<cur>>
  ELSE IF Head(s) = sep THEN <<cur>> \o split_char(Tail(s), sep, <<>>)
  ELSE split_char(Tail(s), sep, Append(cur, Head(s)))

\* The concatenation of the strings of a sequence, sep between them.
RECURSIVE join_with(_, _)
join_with(parts, sep) ==
  IF parts = <<>> THEN <<>>
  ELSE IF Len(parts) = 1 THEN parts[1]
  ELSE parts[1] \o sep \o join_with(Tail(parts), sep)

(***************************************************************************)
(* std::path on Unix                                                       *)
(***************************************************************************)

RootDir == <<"/">>
CurDir == <<".">>
ParentDir == <<".", ".">>

\* Path::has_root
has_root(p) == p # <<>> /\ Head(p) = "/"

\* Path::components: a leading "/" is the RootDir component; empty pieces
\* (repeated or trailing separators) are skipped; a "." piece is skipped
\* unless it is the first piece of a path without a root.
Components(p) ==
  LET pieces == split_char(p, "/", <<>>)
      keep(i) == /\ pieces[i] # <<>>
                 /\ pieces[i] = CurDir => (i = 1 /\ ~has_root(p))
      idx == {i \in 1..Len(pieces) : keep(i)}
      RECURSIVE pick(_)
      pick(i) == IF i > Len(pieces) THEN <<>>
                 ELSE IF i \in idx THEN <<pieces[i]>> \o pick(i + 1)
                 ELSE pick(i + 1)
  IN (IF has_root(p) THEN <<RootDir>> ELSE <<>>) \o pick(1)

\* PathBuf::push: an absolute path replaces the buffer; otherwise a separator
\* is added unless the buffer is empty or already ends with one.
push(buf, p) ==
  IF has_root(p) THEN p
  ELSE IF buf = <<>> \/ buf[Len(buf)] = "/" THEN buf \o p
  ELSE buf \o <<"/">> \o p

\* Path::join
join(base, p) == push(base, p)

\* The path lies lexically inside root: root's components lead p's, and
\* resolving the remaining components, ".." going one level up, never
\* leaves root.
RECURSIVE StaysBelow(_, _)
StaysBelow(comps, depth) ==
  IF comps = <<>> THEN TRUE
  ELSE IF Head(comps) = ParentDir
       THEN depth > 0 /\ StaysBelow(Tail(comps), depth - 1)
  ELSE IF Head(comps) = CurDir THEN StaysBelow(Tail(comps), depth)
  ELSE StaysBelow(Tail(comps), depth + 1)

InsideRoot(root, p) ==
  LET rc == Components(root)
      pc == Components(p)
  IN /\ Len(pc) >= Len(rc)
     /\ SubSeq(pc, 1, Len(rc)) = rc
     /\ StaysBelow(SubSeq(pc, Len(rc) + 1, Len(pc)), 0)

(***************************************************************************)
(* StaticFileHandler::get_file_path                                        *)
(***************************************************************************)

\* The loop over path_buf.components(): every component but ".." is pushed.
RECURSIVE push_components(_, _)
push_components(buf, comps) ==
  IF comps = <<>> THEN buf
  ELSE push_components(
         IF Head(comps) # ParentDir THEN push(buf, Head(comps)) ELSE buf,
         Tail(comps))

\* A handler that pushes every component, ".." included.
get_file_path_keeps_parent(root, path) ==
  LET trimmed == trim_start_matches_char(path, "/")
      RECURSIVE push_all(_, _)
      push_all(buf, comps) ==
        IF comps = <<>> THEN buf
        ELSE push_all(push(buf, Head(comps)), Tail(comps))
  IN join(root, push_all(<<>>, Components(trimmed)))

get_file_path(root, path) ==
  LET trimmed == trim_start_matches_char(path, "/")
      normalized_path == push_components(<<>>, Components(trimmed))
  IN join(root, normalized_path)

(***************************************************************************)
(* FileService                                                             *)
(***************************************************************************)

index_html == <<"i", "n", "d", "e", "x", ".", "h", "t", "m", "l">>

\* FileService::resolve_file_path; is_dir is what the filesystem answers for
\* the joined path.
resolve_file_path(root, path, is_dir) ==
  LET clean_path == trim_start_matches_char(path, "/")
  IN IF clean_path = <<>> THEN join(root, index_html)
     ELSE LET raw_path == join(root, clean_path)
          IN IF is_dir THEN join(raw_path, index_html) ELSE raw_path

(***************************************************************************)
(* Bounds and inputs of the path model                                     *)
(***************************************************************************)

MaxPathLen == 5

PathChars == {"/", ".", "a"}

\* A request path starts with "/".
RequestPaths == {<<"/">> \o s : s \in SeqsUpTo(PathChars, MaxPathLen - 1)}

RootDirs == {<<".", "/", "r">>, <<"/", "r">>}

PathStart ==
  /\ root_dir \in RootDirs
  /\ spa \in BOOLEAN
  /\ req_path = None
  /\ file_path = None
  /\ read_paths = <<>>
  /\ served_path = None
  /\ fs_seen = None
  /\ http_response = None

\* The path services are not part of the run.
PathIdle ==
  /\ root_dir = <<"/", "r">>
  /\ spa = FALSE
  /\ req_path = None
  /\ file_path = None
  /\ read_paths = <<>>
  /\ served_path = None
  /\ fs_seen = None
  /\ http_response = None

\* StaticFileHandler::handle resolves the request path.
GetFilePath ==
  /\ req_path = None
  /\ \E p \in RequestPaths :
       /\ req_path' = Some(p)
       /\ file_path' = Some(get_file_path(root_dir, p))
  /\ UNCHANGED <<root_dir, spa, read_paths, served_path, fs_seen, http_response>>
  /\ UNCHANGED notPath

\* A path naming a directory whatever the filesystem holds: it ends with a
\* separator or with a "." or ".." piece.
names_directory(p) ==
  LET pieces == split_char(p, "/", <<>>)
  IN pieces[Len(pieces)] \in {<<>>, CurDir, ParentDir}

\* Text of the messages.  A character outside ASCII is written as its code
\* point.
not_found_text ==
  <<"U+627E", "U+4E0D", "U+5230", "U+8ACB", "U+6C42", "U+7684", "U+6A94",
    "U+6848">>

cannot_serve_text ==
  <<"U+7121", "U+6CD5", "U+63D0", "U+4F9B", "U+6A94", "U+6848", ":", " ">>

not_found_word == <<"U+627E", "U+4E0D", "U+5230">>

\* The text of the io::Error of a failed read.
io_error_text(outcome) ==
  IF outcome = "NotFound"
    THEN
      <<"N", "o", " ", "s", "u", "c", "h", " ", "f", "i", "l", "e", " ", "o",
        "r", " ", "d", "i", "r", "e", "c", "t", "o", "r", "y", " ", "(", "o",
        "s", " ", "e", "r", "r", "o", "r", " ", "2", ")">>
    ELSE
      <<"P", "e", "r", "m", "i", "s", "s", "i", "o", "n", " ", "d", "e", "n",
        "i", "e", "d", " ", "(", "o", "s", " ", "e", "r", "r", "o", "r", " ",
        "1", "3", ")">>

\* str::contains
contains(str, pat) ==
  \E i \in 1..(Len(str) - Len(pat) + 1) : SubSeq(str, i, i + Len(pat) - 1) = pat

html == <<"h", "t", "m", "l">>

\* mime_guess::from_path(..).first_or_octet_stream(), for the extensions the
\* paths of the model have: the text after the last "." of the file name.
from_path(path) ==
  LET pieces == split_char(path, "/", <<>>)
      name == split_char(pieces[Len(pieces)], ".", <<>>)
  IN IF Len(name) >= 2 /\ name[Len(name)] = html /\ name[1] # <<>>
       THEN "text/html"
     ELSE IF Len(name) >= 3 /\ name[Len(name)] = html
       THEN "text/html"
     ELSE "application/octet-stream"

\* FileService::read_file; outcome is what fs::read answers for the path.
\* An error is the chain of its messages, the outermost first.
FileService_read_file(path, outcome) ==
  IF outcome = "ok"
    THEN Ok([content |-> path, mime |-> from_path(path)])
    ELSE Err(<<io_error_text(outcome)>>)

\* FileService::fallback_to_spa_if_enabled
fallback_to_spa_if_enabled(root, spa_enabled, index_outcome) ==
  IF spa_enabled
    THEN FileService_read_file(join(root, index_html), index_outcome)
    ELSE Err(<<not_found_text>>)

\* anyhow's Context::context on a Result
context(result, message) ==
  IF result.ok THEN result ELSE Err(<<message>> \o result.error)

\* FileService::serve_file; fs is what the filesystem answers.
FileService_serve_file(root, spa_enabled, path_of_req, fs) ==
  LET path == resolve_file_path(root, path_of_req, fs.kind = "dir")
      first == FileService_read_file(path, fs.read)
  IN context(IF first.ok THEN first
             ELSE fallback_to_spa_if_enabled(root, spa_enabled, fs.index),
             cannot_serve_text \o path)

\* anyhow::Error's to_string: the outermost message.
to_string(error) == Head(error)

\* server.rs build_error_response
build_error_response(error) ==
  LET status_code == IF contains(to_string(error), not_found_word) THEN 404 ELSE 500
  IN [status |-> status_code, content |-> None, mime |-> "text/html"]

\* server.rs build_success_response
build_success_response(file_response) ==
  [status |-> 200, content |-> Some(file_response.content),
   mime |-> file_response.mime]

\* server.rs handle_request
handle_request(root, spa_enabled, path_of_req, fs) ==
  LET served == FileService_serve_file(root, spa_enabled, path_of_req, fs)
  IN IF served.ok THEN build_success_response(served.value)
     ELSE build_error_response(served.error)

ReadOutcomes == {"ok", "NotFound", "PermissionDenied"}

\* What the filesystem can answer for a request: what the joined path is (a
\* file, a directory, or missing), how the read of the resolved path ends and
\* how a read of <root>/index.html ends.  A missing path is not found, a file
\* that is there fails to be read only for another reason, and index.html
\* answers the same whichever way it is reached.
FsViews(root, path_of_req) ==
  LET raw_path == join(root, trim_start_matches_char(path_of_req, "/"))
  IN {fs \in [kind : {"file", "dir", "missing"}, read : ReadOutcomes,
              index : ReadOutcomes] :
        /\ fs.kind = "file" => (~names_directory(raw_path) /\ fs.read # "NotFound")
        /\ fs.kind = "missing" => fs.read = "NotFound"
        /\ resolve_file_path(root, path_of_req, fs.kind = "dir") = join(root, index_html)
             => fs.read = fs.index}

\* server.rs handle_request on FileService::serve_file: resolve, read, and on
\* a failed read fall back to <root>/index.html when spa is set.
ServeFile ==
  /\ req_path = None
  /\ \E p \in RequestPaths :
       \E fs \in FsViews(root_dir, p) :
         LET path == resolve_file_path(root_dir, p, fs.kind = "dir")
             index_path == join(root_dir, index_html)
             served == FileService_serve_file(root_dir, spa, p, fs)
         IN /\ req_path' = Some(p)
            /\ fs_seen' = Some(fs)
            /\ read_paths' = IF fs.read # "ok" /\ spa THEN <<path, index_path>>
                             ELSE <<path>>
            /\ served_path' = IF served.ok THEN Some(served.value.content) ELSE None
            /\ http_response' = Some(handle_request(root_dir, spa, p, fs))
  /\ UNCHANGED <<root_dir, spa, file_path>>
  /\ UNCHANGED notPath

\* The connection takes the next request.
NextRequest ==
  /\ req_path # None
  /\ req_path' = None
  /\ file_path' = None
  /\ read_paths' = <<>>
  /\ served_path' = None
  /\ fs_seen' = None
  /\ http_response' = None
  /\ UNCHANGED <<root_dir, spa>>
  /\ UNCHANGED notPath

(***************************************************************************)
(* The regex crate, for the syntax the server's patterns use: literal      *)
(* characters, "\c" (the character c), "." (any character but a newline),  *)
(* the class "[^.]", a postfix "*" on any of these, "^" in front and "$"   *)
(* at the end.                                                             *)
(***************************************************************************)

\* The atom at position i of a pattern and the position after it.
AtomAt(s, i) ==
  IF s[i] = "\\" THEN
    IF i < Len(s) THEN [kind |-> "lit", ch |-> s[i + 1], next |-> i + 2]
    ELSE [kind |-> "bad", ch |-> s[i], next |-> i + 1]
  ELSE IF s[i] = "[" THEN
    IF i + 3 <= Len(s) /\ SubSeq(s, i, i + 3) = <<"[", "^", ".", "]">>
    THEN [kind |-> "notdot", ch |-> ".", next |-> i + 4]
    ELSE [kind |-> "bad", ch |-> s[i], next |-> i + 1]
  ELSE IF s[i] = "." THEN [kind |-> "any", ch |-> ".", next |-> i + 1]
  ELSE IF s[i] = "*" THEN [kind |-> "bad", ch |-> s[i], next |-> i + 1]
  ELSE [kind |-> "lit", ch |-> s[i], next |-> i + 1]

\* The atoms of a pattern, each with whether a "*" follows it.
RECURSIVE ParseAtoms(_, _)
ParseAtoms(s, i) ==
  IF i > Len(s) THEN <<>>
  ELSE LET a == AtomAt(s, i)
           star == a.next <= Len(s) /\ s[a.next] = "*"
       IN <<[kind |-> a.kind, ch |-> a.ch, star |-> star]>>
          \o ParseAtoms(s, IF star THEN a.next + 1 ELSE a.next)

\* Regex::new: the compiled pattern, or ok = FALSE for a syntax error.
Regex_new(src) ==
  LET anchored_start == src # <<>> /\ Head(src) = "^"
      s1 == IF anchored_start THEN Tail(src) ELSE src
      anchored_end == /\ s1 # <<>>
                      /\ s1[Len(s1)] = "$"
                      /\ (Len(s1) = 1 \/ s1[Len(s1) - 1] # "\\")
      body == IF anchored_end THEN SubSeq(s1, 1, Len(s1) - 1) ELSE s1
      atoms == ParseAtoms(body, 1)
  IN [ok |-> \A i \in DOMAIN atoms : atoms[i].kind # "bad",
      anchored_start |-> anchored_start,
      anchored_end |-> anchored_end,
      atoms |-> atoms]

\* One atom against one character.
atom_accepts(a, c) ==
  CASE a.kind = "lit" -> c = a.ch
    [] a.kind = "any" -> c # "\n"
    [] a.kind = "notdot" -> c # "."
    [] OTHER -> FALSE

\* The atoms from the i-th on match text from position j on: up to the end
\* of text when to_end, up to anywhere otherwise.
RECURSIVE match_here(_, _, _, _, _)
match_here(atoms, i, text, j, to_end) ==
  IF i > Len(atoms) THEN (~to_end \/ j = Len(text) + 1)
  ELSE IF atoms[i].star THEN
    \/ match_here(atoms, i + 1, text, j, to_end)
    \/ /\ j <= Len(text)
       /\ atom_accepts(atoms[i], text[j])
       /\ match_here(atoms, i, text, j + 1, to_end)
  ELSE /\ j <= Len(text)
       /\ atom_accepts(atoms[i], text[j])
       /\ match_here(atoms, i + 1, text, j + 1, to_end)

\* Regex::is_match: a match starting anywhere, or at the start under "^".
is_match(re, text) ==
  \E start \in (IF re.anchored_start THEN {1} ELSE 1..(Len(text) + 1)) :
    match_here(re.atoms, 1, text, start, re.anchored_end)

\* Where the match of the atoms from the i-th on, starting at position j of
\* text, ends (the position after its last character): the match the regex
\* crate reports, every "*" taking as much as it can.  0 when there is none.
RECURSIVE match_end(_, _, _, _, _)
match_end(atoms, i, text, j, to_end) ==
  IF i > Len(atoms) THEN (IF ~to_end \/ j = Len(text) + 1 THEN j ELSE 0)
  ELSE IF atoms[i].star THEN
    LET more == IF j <= Len(text) /\ atom_accepts(atoms[i], text[j])
                  THEN match_end(atoms, i, text, j + 1, to_end)
                  ELSE 0
    IN IF more # 0 THEN more ELSE match_end(atoms, i + 1, text, j, to_end)
  ELSE IF j <= Len(text) /\ atom_accepts(atoms[i], text[j])
    THEN match_end(atoms, i + 1, text, j + 1, to_end)
  ELSE 0

\* The characters a group name in a replacement string is made of.
NameChars ==
  {"0", "1", "2", "3", "4", "5", "6", "7", "8", "9", "_",
   "a", "b", "c", "d", "e", "f", "g", "h", "i", "j", "k", "l", "m",
   "n", "o", "p", "q", "r", "s", "t", "u", "v", "w", "x", "y", "z",
   "A", "B", "C", "D", "E", "F", "G", "H", "I", "J", "K", "L", "M",
   "N", "O", "P", "Q", "R", "S", "T", "U", "V", "W", "X", "Y", "Z"}

\* How many characters at the start of s are name characters.
RECURSIVE name_len(_)
name_len(s) ==
  IF s # <<>> /\ Head(s) \in NameChars THEN 1 + name_len(Tail(s)) ELSE 0

\* The replacement string with its group references expanded: "$$" is "$",
\* "$0" is the matched text, and a reference to any other group is empty,
\* the patterns having no groups.
RECURSIVE expand(_, _)
expand(replacement, matched) ==
  IF replacement = <<>> THEN <<>>
  ELSE IF Head(replacement) # "$"
    THEN <<Head(replacement)>> \o expand(Tail(replacement), matched)
  ELSE IF Len(replacement) >= 2 /\ replacement[2] = "$"
    THEN <<"$">> \o expand(Tail(Tail(replacement)), matched)
  ELSE LET n == name_len(Tail(replacement))
       IN IF n = 0 THEN <<"$">> \o expand(Tail(replacement), matched)
          ELSE (IF SubSeq(replacement, 2, n + 1) = <<"0">> THEN matched ELSE <<>>)
               \o expand(Tail_from(replacement, n + 2), matched)

\* Regex::replace_all from position p on; last_end is where the previous
\* match ended, and an empty match there is passed over.
RECURSIVE replace_from(_, _, _, _, _)
replace_from(re, text, replacement, p, last_end) ==
  IF p > Len(text) + 1 THEN <<>>
  ELSE LET e == IF re.anchored_start /\ p # 1 THEN 0
                ELSE match_end(re.atoms, 1, text, p, re.anchored_end)
           this_char == IF p <= Len(text) THEN <<text[p]>> ELSE <<>>
       IN IF e = 0 \/ (e = p /\ p = last_end)
            THEN this_char \o replace_from(re, text, replacement, p + 1, last_end)
          ELSE IF e = p
            THEN expand(replacement, <<>>) \o this_char
                 \o replace_from(re, text, replacement, p + 1, last_end)
          ELSE expand(replacement, SubSeq(text, p, e - 1))
               \o replace_from(re, text, replacement, e, e)

\* Regex::replace_all
replace_all(re, text, replacement) == replace_from(re, text, replacement, 1, 0)

\* str::replace for a one-character pattern.
RECURSIVE replace_char(_, _, _)
replace_char(s, from, to) ==
  IF s = <<>> THEN <<>>
  ELSE (IF Head(s) = from THEN to ELSE <<Head(s)>>)
       \o replace_char(Tail(s), from, to)

(***************************************************************************)
(* Route                                                                   *)
(***************************************************************************)

\* Route::new
Route_new(pattern, handler_type) ==
  LET regex_pattern == <<"^">> \o replace_char(pattern, "*", <<".", "*">>) \o <<"$">>
      regex == Regex_new(regex_pattern)
  IN IF regex.ok
       THEN Ok([pattern |-> pattern, regex |-> regex,
                handler_type |-> handler_type, handler_params |-> None])
       ELSE Err("InvalidRoutePattern")

\* Route::matches
Route_matches(r, path) == is_match(r.regex, path)

(***************************************************************************)
(* VirtualHost                                                             *)
(***************************************************************************)

catch_all == <<"/", "*">>

\* A VirtualHost::new whose "*" is the ".*" of Route::new.
VirtualHost_new_any(hostname_pattern, document_root) ==
  LET pattern == replace_char(replace_char(hostname_pattern, ".", <<"\\", ".">>),
                              "*", <<".", "*">>)
      regex == Regex_new(<<"^">> \o pattern \o <<"$">>)
      static == Route_new(catch_all, "static")
  IN IF regex.ok
       THEN Ok([hostname_pattern |-> hostname_pattern,
                hostname_regex |-> regex,
                document_root |-> document_root,
                routes |-> IF static.ok THEN <<static.value>> ELSE <<>>])
       ELSE Err("regex::Error")

\* VirtualHost::new
VirtualHost_new(hostname_pattern, document_root) ==
  LET pattern == replace_char(replace_char(hostname_pattern, ".", <<"\\", ".">>),
                              "*", <<"[", "^", ".", "]", "*">>)
      regex_pattern == <<"^">> \o pattern \o <<"$">>
      regex == Regex_new(regex_pattern)
      static == Route_new(catch_all, "static")
  IN IF regex.ok
       THEN Ok([hostname_pattern |-> hostname_pattern,
                hostname_regex |-> regex,
                document_root |-> document_root,
                routes |-> IF static.ok THEN <<static.value>> ELSE <<>>])
       ELSE Err("regex::Error")

\* VirtualHost::matches
VirtualHost_matches(v, name) == is_match(v.hostname_regex, name)


\* A scan that keeps the last matching route.
RECURSIVE VirtualHost_match_route_last(_, _)
VirtualHost_match_route_last(routes, path) ==
  IF routes = <<>> THEN None
  ELSE LET later == VirtualHost_match_route_last(Tail(routes), path)
       IN IF later # None THEN later
          ELSE IF Route_matches(Head(routes), path) THEN Some(Head(routes))
          ELSE None

\* VirtualHost::match_route, over the host's routes
RECURSIVE VirtualHost_match_route(_, _)
VirtualHost_match_route(routes, path) ==
  IF routes = <<>> THEN None
  ELSE IF Route_matches(Head(routes), path) THEN Some(Head(routes))
  ELSE VirtualHost_match_route(Tail(routes), path)

(***************************************************************************)
(* Router                                                                  *)
(***************************************************************************)

\* Router::new: the catch-all static route, then one VirtualHost for each
\* configured host whose pattern compiles.
RECURSIVE Router_new_vhosts(_)
Router_new_vhosts(configs) ==
  IF configs = <<>> THEN <<>>
  ELSE LET v == VirtualHost_new(Head(configs).host, Head(configs).root_dir)
       IN (IF v.ok THEN <<v.value>> ELSE <<>>) \o Router_new_vhosts(Tail(configs))

\* Router::new without the default static file route
Router_new_no_default_routes == <<>>

Router_new_default_routes ==
  LET static == Route_new(catch_all, "static")
  IN IF static.ok THEN <<static.value>> ELSE <<>>

\* The loop of Router::route over the default routes.
RECURSIVE route_default(_, _)
route_default(routes, path) ==
  IF routes = <<>> THEN Err("NoMatchingRoute")
  ELSE IF Route_matches(Head(routes), path) THEN Ok(Head(routes))
  ELSE route_default(Tail(routes), path)

\* The loop of Router::route over the virtual hosts: the route of the first
\* host that matches the hostname and has a route for the path.
RECURSIVE route_vhosts(_, _, _)
route_vhosts(vs, name, path) ==
  IF vs = <<>> THEN None
  ELSE LET r == IF VirtualHost_matches(Head(vs), name)
                  THEN VirtualHost_match_route(Head(vs).routes, path)
                  ELSE None
       IN IF r # None THEN r ELSE route_vhosts(Tail(vs), name, path)

\* Router::route; req.host is the Host header, if any.
Router_route(vs, routes, req) ==
  LET by_host == IF req.host # None
                   THEN route_vhosts(vs, split_char(unwrap(req.host), ":", <<>>)[1],
                                     req.path)
                   ELSE None
  IN IF by_host # None THEN Ok(unwrap(by_host))
     ELSE route_default(routes, req.path)

\* The route lists the loops of Router::route scan for a request, in order:
\* i for the list of the i-th virtual host (vs holds the hosts from the
\* i-th on), 0 for the default list.
RECURSIVE consulted_vhosts(_, _, _, _)
consulted_vhosts(vs, i, name, path) ==
  IF vs = <<>> THEN <<>>
  ELSE IF VirtualHost_matches(Head(vs), name)
    THEN IF VirtualHost_match_route(Head(vs).routes, path) # None
           THEN <<i>>
           ELSE <<i>> \o consulted_vhosts(Tail(vs), i + 1, name, path)
    ELSE consulted_vhosts(Tail(vs), i + 1, name, path)

Router_route_consulted(vs, routes, req) ==
  LET hosts == IF req.host # None
                 THEN consulted_vhosts(vs, 1, split_char(unwrap(req.host), ":", <<>>)[1],
                                       req.path)
                 ELSE <<>>
      by_host == IF req.host # None
                   THEN route_vhosts(vs, split_char(unwrap(req.host), ":", <<>>)[1],
                                     req.path)
                   ELSE None
  IN IF by_host # None THEN hosts ELSE Append(hosts, 0)


(***************************************************************************)
(* Claims about path resolution                                            *)
(***************************************************************************)

\* The request's segments as std::path reads them, ".." segments left out.
SegmentsWithoutParent(path) ==
  SelectSeq(Components(trim_start_matches_char(path, "/")),
            LAMBDA c : c # ParentDir)

\* C1: for every request path, whatever ".." segments it holds, the path
\* StaticFileHandler::get_file_path computes is the root joined with the
\* request's segments without the ".." ones, it lies lexically inside the
\* root, and a path is always produced (no request is rejected).
C1_GetFilePathInsideRoot ==
  (req_path # None /\ read_paths = <<>>) =>
    /\ file_path # None
    /\ unwrap(file_path) =
         join(root_dir, join_with(SegmentsWithoutParent(unwrap(req_path)), <<"/">>))
    /\ InsideRoot(root_dir, unwrap(file_path))

\* A request with a leading ".." segment has been resolved below the root.
C1_Witness ==
  /\ req_path = Some(<<"/", ".", ".", "/", "a">>)
  /\ file_path = Some(root_dir \o <<"/", "a">>)

\* C2: the file FileService::serve_file reads and returns lies inside the
\* configured root: no ".." segment of the request survives normalization.
C2_ServeFileInsideRoot ==
  served_path # None => InsideRoot(root_dir, unwrap(served_path))

\* C18: with SPA mode off, a request whose resolved path does not exist is
\* answered with 404, and 500 is the answer only to a read that failed for
\* another reason than the file being absent.
C18_MissingFileIs404 ==
  (http_response # None /\ ~spa) =>
    LET fs == unwrap(fs_seen)
        status == unwrap(http_response).status
    IN /\ fs.read = "NotFound" => status = 404
       /\ status = 500 => fs.read = "PermissionDenied"

\* C19: with SPA mode on, a request for a path that does not exist is
\* answered with 200 and the content and MIME type of <root>/index.html when
\* that file is there, and with 404 when it is absent; a path that exists is
\* not replaced by index.html.
C19_SpaFallback ==
  (http_response # None /\ spa) =>
    LET fs == unwrap(fs_seen)
        resp == unwrap(http_response)
        path == resolve_file_path(root_dir, unwrap(req_path), fs.kind = "dir")
        index_path == join(root_dir, index_html)
    IN /\ (fs.read = "NotFound" /\ fs.index = "ok") =>
            /\ resp.status = 200
            /\ resp.content = Some(index_path)
            /\ resp.mime = from_path(index_path)
       /\ (fs.read = "NotFound" /\ fs.index = "NotFound") => resp.status = 404
       /\ (fs.read # "NotFound" /\ path # index_path) =>
            resp.content # Some(index_path)

(***************************************************************************)
(* A Route under test                                                      *)
(***************************************************************************)

MaxPatLen == 3

RoutePatChars == {"/", "a", ".", "*"}
RoutePatterns == SeqsUpTo(RoutePatChars, MaxPatLen) \ {<<>>}
MatchPaths == SeqsUpTo({"/", "a", "."}, MaxPatLen)

RouteMatchIdle ==
  /\ route = None
  /\ match_path = None
  /\ match_result = None

\* Route::new(pattern, "static"); a pattern that does not compile makes no
\* Route.
RouteNew ==
  /\ route = None
  /\ \E pattern \in RoutePatterns :
       LET r == Route_new(pattern, "static")
       IN /\ r.ok
          /\ route' = Some(r.value)
  /\ UNCHANGED <<match_path, match_result>>
  /\ UNCHANGED notRouteMatch

\* Route::matches(path)
RouteMatches ==
  /\ route # None
  /\ match_path = None
  /\ \E path \in MatchPaths :
       /\ match_path' = Some(path)
       /\ match_result' = Some(Route_matches(unwrap(route), path))
  /\ UNCHANGED route
  /\ UNCHANGED notRouteMatch

(***************************************************************************)
(* A VirtualHost under test                                                *)
(***************************************************************************)

MaxHostLen == 3

example_com == <<"e", "x", "a", "m", "p", "l", "e", ".", "c", "o", "m">>
star_example_com == <<"*", ".">> \o example_com
a_example_com == <<"a", ".">> \o example_com
a_b_example_com == <<"a", ".", "b", ".">> \o example_com

HostPatterns == SeqsUpTo({"a", ".", "*"}, MaxHostLen) \cup {star_example_com}
HostNames == SeqsUpTo({"a", "."}, MaxHostLen)
               \cup {example_com, a_example_com, a_b_example_com}

VhostIdle ==
  /\ vhost = None
  /\ hostname = None
  /\ host_match = None
  /\ vhost_route = None

\* VirtualHost::new(pattern, root); an error makes no VirtualHost.
VirtualHostNew ==
  /\ vhost = None
  /\ \E pattern \in HostPatterns :
       LET v == VirtualHost_new(pattern, <<"/", "r">>)
       IN /\ v.ok
          /\ vhost' = Some(v.value)
  /\ UNCHANGED <<hostname, host_match, vhost_route>>
  /\ UNCHANGED notVhost

\* VirtualHost::matches(hostname)
VirtualHostMatches ==
  /\ vhost # None
  /\ hostname = None
  /\ \E name \in HostNames :
       /\ hostname' = Some(name)
       /\ host_match' = Some(VirtualHost_matches(unwrap(vhost), name))
  /\ UNCHANGED <<vhost, vhost_route>>
  /\ UNCHANGED notVhost

(***************************************************************************)
(* Claims about pattern matching                                           *)
(***************************************************************************)

\* The language of a pattern: every character stands for itself, except
\* "*", which stands for any sequence of the characters in wild.
RECURSIVE InLanguage(_, _, _)
InLanguage(pattern, text, wild) ==
  IF pattern = <<>> THEN text = <<>>
  ELSE IF Head(pattern) = "*" THEN
    \/ InLanguage(Tail(pattern), text, wild)
    \/ /\ text # <<>>
       /\ Head(text) \in wild
       /\ InLanguage(pattern, Tail(text), wild)
  ELSE /\ text # <<>>
       /\ Head(text) = Head(pattern)
       /\ InLanguage(Tail(pattern), Tail(text), wild)

AllChars == {"/", ".", "*", "a", "b", "c", "e", "l", "m", "o", "p", "x"}

\* C9: Route::matches(path) is true exactly when the whole path is in the
\* language of the route's pattern, read as literal characters plus "*" for
\* any character sequence; "." and the other characters match only
\* themselves.
C9_RouteMatchesPatternLanguage ==
  match_result # None =>
    unwrap(match_result) =
      InLanguage(unwrap(route).pattern, unwrap(match_path), AllChars)

\* C10: in a hostname pattern "*" matches a sequence of characters without
\* a dot, "." matches only a dot, and the whole hostname must match; so
\* "*.example.com" matches "a.example.com" and neither "a.b.example.com"
\* nor "example.com".
C10_HostnameWildcardOneLabel ==
  host_match # None =>
    /\ unwrap(host_match) =
         InLanguage(unwrap(vhost).hostname_pattern, unwrap(hostname),
                    AllChars \ {"."})
    /\ unwrap(vhost).hostname_pattern = star_example_com =>
         /\ unwrap(hostname) = a_example_com => unwrap(host_match)
         /\ unwrap(hostname) = a_b_example_com => ~unwrap(host_match)
         /\ unwrap(hostname) = example_com => ~unwrap(host_match)

\* "*.example.com" has been tried on a name with two labels in front.
C10_Witness ==
  /\ vhost # None
  /\ unwrap(vhost).hostname_pattern = star_example_com
  /\ hostname = Some(a_b_example_com)
  /\ host_match = Some(FALSE)


(***************************************************************************)
(* The Router and a VirtualHost with routes                                *)
(***************************************************************************)

MaxRoutes == 2

api_star == <<"/", "a", "p", "i", "/", "*">>
api_x == <<"/", "a", "p", "i", "/", "x">>
public == <<"/", "p", "u", "b", "l", "i", "c">>
port_80 == <<":", "8", "0">>

\* The routes add_route is called with.
RoutePool ==
  {Route_new(api_star, "api").value,
   Route_new(catch_all, "static").value,
   Route_new(public, "cgi").value}

RoutePaths == {api_x, public, <<"/">>, <<"*">>}

Example_COM == <<"E", "x", "a", "m", "p", "l", "e", ".", "C", "O", "M">>

HostHeaders ==
  {None, Some(a_example_com), Some(a_example_com \o port_80), Some(example_com),
   Some(Example_COM)}

\* A host pattern with an unclosed "[", which Regex::new rejects.
bad_example_com == <<"[">> \o example_com

\* Config.virtual_hosts
VhostConfigs ==
  {<<>>,
   <<[host |-> star_example_com, root_dir |-> <<"/", "v">>]>>,
   <<[host |-> example_com, root_dir |-> <<"/", "w">>],
     [host |-> star_example_com, root_dir |-> <<"/", "v">>]>>,
   <<[host |-> star_example_com, root_dir |-> <<"/", "v">>],
     [host |-> a_example_com, root_dir |-> <<"/", "w">>]>>,
   <<[host |-> bad_example_com, root_dir |-> <<"/", "w">>],
     [host |-> star_example_com, root_dir |-> <<"/", "v">>]>>}

RouterIdle ==
  /\ vhost_configs = <<>>
  /\ vhosts = <<>>
  /\ default_routes = <<>>
  /\ route_req = None
  /\ route_result = None
  /\ consulted = <<>>

\* After Router::new(config) and VirtualHost::new("*.example.com", root).
RouterStart ==
  /\ vhost_configs \in VhostConfigs
  /\ vhosts = Router_new_vhosts(vhost_configs)
  /\ default_routes = Router_new_default_routes
  /\ route_req = None
  /\ route_result = None
  /\ consulted = <<>>
  /\ vhost = Some(VirtualHost_new(star_example_com, <<"/", "r">>).value)
  /\ hostname = None
  /\ host_match = None
  /\ vhost_route = None

\* Router::add_route
RouterAddRoute ==
  /\ route_req = None
  /\ Len(default_routes) < MaxRoutes
  /\ \E r \in RoutePool : default_routes' = Append(default_routes, r)
  /\ UNCHANGED <<vhost_configs, vhosts, route_req, route_result, consulted>>
  /\ UNCHANGED notRouter

\* Router::route
RouterRoute ==
  /\ route_req = None
  /\ \E path \in RoutePaths, host \in HostHeaders :
       LET req == [path |-> path, host |-> host]
       IN /\ route_req' = Some(req)
          /\ route_result' = Some(Router_route(vhosts, default_routes, req))
          /\ consulted' = Router_route_consulted(vhosts, default_routes, req)
  /\ UNCHANGED <<vhost_configs, vhosts, default_routes>>
  /\ UNCHANGED notRouter

\* The caller is done with the route.
RouterNextRequest ==
  /\ route_req # None
  /\ route_req' = None
  /\ route_result' = None
  /\ consulted' = <<>>
  /\ UNCHANGED <<vhost_configs, vhosts, default_routes>>
  /\ UNCHANGED notRouter

\* VirtualHost::add_route
VirtualHostAddRoute ==
  /\ vhost # None
  /\ vhost_route = None
  /\ Len(unwrap(vhost).routes) < MaxRoutes
  /\ \E r \in RoutePool :
       vhost' = Some([unwrap(vhost) EXCEPT !.routes = Append(@, r)])
  /\ UNCHANGED <<hostname, host_match, vhost_route>>
  /\ UNCHANGED notVhost

\* VirtualHost::match_route
VirtualHostMatchRoute ==
  /\ vhost # None
  /\ vhost_route = None
  /\ \E path \in RoutePaths :
       vhost_route' =
         Some([path |-> path,
               route |-> VirtualHost_match_route(unwrap(vhost).routes, path)])
  /\ UNCHANGED <<vhost, hostname, host_match>>
  /\ UNCHANGED notVhost

\* The caller is done with the virtual host's route.
VirtualHostNextRequest ==
  /\ vhost_route # None
  /\ vhost_route' = None
  /\ UNCHANGED <<vhost, hostname, host_match>>
  /\ UNCHANGED notVhost

(***************************************************************************)
(* Claims about routing                                                    *)
(***************************************************************************)

\* The positions of the routes of a list that match a path.
Matching(routes, path) ==
  {i \in DOMAIN routes : Route_matches(routes[i], path)}

\* The least element of a non-empty set of numbers.
Least(S) == CHOOSE i \in S : \A j \in S : i <= j

\* The routes of the virtual hosts that match the request's hostname (the
\* Host header up to its first ":"), in declared order.
RECURSIVE RoutesOfMatchingHosts(_, _)
RoutesOfMatchingHosts(vs, name) ==
  IF vs = <<>> THEN <<>>
  ELSE (IF VirtualHost_matches(Head(vs), name) THEN Head(vs).routes ELSE <<>>)
       \o RoutesOfMatchingHosts(Tail(vs), name)

HostOf(req) == split_char(unwrap(req.host), ":", <<>>)[1]

\* C8: a route list is scanned in insertion order and the first route whose
\* pattern matches the path is returned, by Router::route (the routes of the
\* matching virtual hosts, then the default routes) and by
\* VirtualHost::match_route; with the routes [/api/* -> api, /* -> static],
\* /api/x goes to api.
C8_FirstMatchingRouteWins ==
  /\ route_result # None =>
       LET req == unwrap(route_req)
           routes == (IF req.host # None
                        THEN RoutesOfMatchingHosts(vhosts, HostOf(req))
                        ELSE <<>>) \o default_routes
           hits == Matching(routes, req.path)
       IN unwrap(route_result) =
            IF hits = {} THEN Err("NoMatchingRoute") ELSE Ok(routes[Least(hits)])
  /\ vhost_route # None =>
       LET routes == unwrap(vhost).routes
           hits == Matching(routes, unwrap(vhost_route).path)
       IN unwrap(vhost_route).route =
            IF hits = {} THEN None ELSE Some(routes[Least(hits)])
  /\ LET api == Route_new(api_star, "api").value
         static == Route_new(catch_all, "static").value
     IN /\ VirtualHost_match_route(<<api, static>>, api_x) = Some(api)
        /\ Router_route(<<>>, <<api, static>>, [path |-> api_x, host |-> None])
             = Ok(api)

\* Both scans have run on a list in which two routes match the path, and
\* each returned the earlier one.
C8_Witness ==
  /\ route_result # None
  /\ Cardinality(Matching(default_routes, api_x)) >= 2
  /\ unwrap(route_req) = [path |-> api_x, host |-> None]
  /\ unwrap(route_result) = Ok(default_routes[1])
  /\ vhost_route # None
  /\ unwrap(vhost_route).path = api_x
  /\ Cardinality(Matching(unwrap(vhost).routes, api_x)) >= 2
  /\ unwrap(vhost_route).route = Some(unwrap(vhost).routes[1])

UpperCase ==
  <<"A", "B", "C", "D", "E", "F", "G", "H", "I", "J", "K", "L", "M",
    "N", "O", "P", "Q", "R", "S", "T", "U", "V", "W", "X", "Y", "Z">>

LowerCase ==
  <<"a", "b", "c", "d", "e", "f", "g", "h", "i", "j", "k", "l", "m",
    "n", "o", "p", "q", "r", "s", "t", "u", "v", "w", "x", "y", "z">>

\* A string with its upper-case ASCII letters replaced by the lower-case ones.
ToLowerCase(str) ==
  [i \in DOMAIN str |->
     IF \E k \in DOMAIN UpperCase : UpperCase[k] = str[i]
       THEN LowerCase[CHOOSE k \in DOMAIN UpperCase : UpperCase[k] = str[i]]
       ELSE str[i]]

\* The virtual hosts among the route lists scanned.
SelectedHosts(lists) == SelectSeq(lists, LAMBDA i : i # 0)

\* C11: virtual-host matching ignores the letter case of the Host header:
\* Router::route selects for a request the virtual host it selects for the
\* same request with the Host header in lower case.
C11_HostHeaderCaseInsensitive ==
  (route_result # None /\ unwrap(route_req).host # None) =>
    LET req == unwrap(route_req)
        lower == [req EXCEPT !.host = Some(ToLowerCase(unwrap(req.host)))]
    IN SelectedHosts(consulted) =
         SelectedHosts(Router_route_consulted(vhosts, default_routes, lower))

\* The positions of the virtual hosts whose pattern matches a hostname.
MatchingHosts(vs, name) == {i \in DOMAIN vs : VirtualHost_matches(vs[i], name)}

\* C12: Router::route takes the Host header up to its first ":" and uses
\* only the first virtual host whose pattern matches it: the route list of
\* that host is scanned, then the default list if it had no route for the
\* path, and the list of no later host; without a matching host or a Host
\* header only the default list is scanned.
C12_OnlyFirstMatchingHost ==
  route_result # None =>
    LET req == unwrap(route_req)
        hosts == IF req.host # None THEN MatchingHosts(vhosts, HostOf(req)) ELSE {}
        first == IF hosts = {} THEN 0 ELSE Least(hosts)
        own == IF first = 0 THEN <<>> ELSE vhosts[first].routes
        own_hits == Matching(own, req.path)
        default_hits == Matching(default_routes, req.path)
    IN /\ consulted = IF first = 0 THEN <<0>>
                      ELSE IF own_hits # {} THEN <<first>>
                      ELSE <<first, 0>>
       /\ unwrap(route_result) =
            IF own_hits # {} THEN Ok(own[Least(own_hits)])
            ELSE IF default_hits # {} THEN Ok(default_routes[Least(default_hits)])
            ELSE Err("NoMatchingRoute")


(***************************************************************************)
(* RewriteRule and Rewriter                                                *)
(***************************************************************************)

\* RewriteRule::new
RewriteRule_new(pattern, replacement) ==
  LET regex == Regex_new(pattern)
  IN IF regex.ok
       THEN Ok([pattern |-> regex, replacement |-> replacement, last |-> FALSE,
                redirect |-> FALSE, redirect_status |-> None])
       ELSE Err("InvalidPattern")

\* RewriteRule::last
RewriteRule_last(rule, last) == [rule EXCEPT !.last = last]

\* RewriteRule::redirect
RewriteRule_redirect(rule, redirect, status) ==
  [rule EXCEPT !.redirect = redirect, !.redirect_status = Some(status)]

\* RewriteRule::apply
RewriteRule_apply(rule, path) ==
  IF is_match(rule.pattern, path)
    THEN Some([new_path |-> replace_all(rule.pattern, path, rule.replacement),
               is_last |-> rule.last,
               is_redirect |-> rule.redirect,
               redirect_status |-> rule.redirect_status])
    ELSE None

\* The loop of a Rewriter::process that goes on after a matching last rule.
RECURSIVE process_rules_no_break(_, _, _, _, _)
process_rules_no_break(rs, i, current_path, result, trace) ==
  IF i > Len(rs) THEN [result |-> result, trace |-> trace]
  ELSE LET rewrite_result == RewriteRule_apply(rs[i], current_path)
       IN IF rewrite_result # None
            THEN process_rules_no_break(
                   rs, i + 1, unwrap(rewrite_result).new_path, rewrite_result,
                   Append(trace, [rule |-> i, result |-> unwrap(rewrite_result)]))
            ELSE process_rules_no_break(rs, i + 1, current_path, result, trace)

Rewriter_process_no_break(rs, path) == process_rules_no_break(rs, 1, path, None, <<>>)

\* The loop of a Rewriter::process that keeps the first result.
RECURSIVE process_rules_first(_, _, _, _, _)
process_rules_first(rs, i, current_path, result, trace) ==
  IF i > Len(rs) THEN [result |-> result, trace |-> trace]
  ELSE LET rewrite_result == RewriteRule_apply(rs[i], current_path)
           applied == Append(trace, [rule |-> i, result |-> unwrap(rewrite_result)])
           kept == IF result = None THEN rewrite_result ELSE result
       IN IF rewrite_result # None
            THEN IF unwrap(rewrite_result).is_last
                   THEN [result |-> kept, trace |-> applied]
                   ELSE process_rules_first(
                          rs, i + 1, unwrap(rewrite_result).new_path, kept, applied)
            ELSE process_rules_first(rs, i + 1, current_path, result, trace)

Rewriter_process_first(rs, path) == process_rules_first(rs, 1, path, None, <<>>)

\* The loop of Rewriter::process from the i-th rule on.  trace lists the
\* rules whose apply returned a result, each with that result.
RECURSIVE process_rules(_, _, _, _, _)
process_rules(rs, i, current_path, result, trace) ==
  IF i > Len(rs) THEN [result |-> result, trace |-> trace]
  ELSE LET rewrite_result == RewriteRule_apply(rs[i], current_path)
           applied == Append(trace, [rule |-> i, result |-> unwrap(rewrite_result)])
       IN IF rewrite_result # None
            THEN IF unwrap(rewrite_result).is_last
                   THEN [result |-> rewrite_result, trace |-> applied]
                   ELSE process_rules(
                          rs, i + 1, unwrap(rewrite_result).new_path, rewrite_result,
                          applied)
            ELSE process_rules(rs, i + 1, current_path, result, trace)

\* Rewriter::process
Rewriter_process(rs, path) == process_rules(rs, 1, path, None, <<>>)

MaxRewriteRules == 3

slash_a == <<"/", "a">>
slash_b == <<"/", "b">>
slash_c == <<"/", "c">>

\* The rules Rewriter::add_rule is called with.
RewriteRulePool ==
  {RewriteRule_new(<<"^", "/", "a", "$">>, slash_b).value,
   RewriteRule_last(RewriteRule_new(<<"^", "/", "a", "$">>, slash_b).value, TRUE),
   RewriteRule_redirect(RewriteRule_new(<<"^", "/", "b", "$">>, slash_c).value, TRUE, 301),
   RewriteRule_last(RewriteRule_new(<<"^", "/", "b", "$">>, slash_a).value, TRUE),
   RewriteRule_new(<<"a">>, <<"b">>).value,
   RewriteRule_redirect(
     RewriteRule_last(RewriteRule_new(<<"^", "/", "c", "$">>, slash_a).value, TRUE),
     TRUE, 302),
   RewriteRule_new(<<"^", "/", "b">>, <<"/", "c", "$", "0">>).value}

RewritePaths == {slash_a, slash_b, slash_c, <<"/", "a", "/", "a">>}

\* Rewriter::new
RewriteIdle ==
  /\ rewrite_rules = <<>>
  /\ rewrite_req = None
  /\ rewrite_out = None
  /\ rewrite_trace = <<>>

\* Rewriter::add_rule
RewriterAddRule ==
  /\ rewrite_req = None
  /\ Len(rewrite_rules) < MaxRewriteRules
  /\ \E rule \in RewriteRulePool : rewrite_rules' = Append(rewrite_rules, rule)
  /\ UNCHANGED <<rewrite_req, rewrite_out, rewrite_trace>>
  /\ UNCHANGED notRewrite

\* Rewriter::process
RewriterProcess ==
  /\ rewrite_req = None
  /\ \E path \in RewritePaths :
       LET out == Rewriter_process(rewrite_rules, path)
       IN /\ rewrite_req' = Some(path)
          /\ rewrite_out' = Some(out.result)
          /\ rewrite_trace' = out.trace
  /\ UNCHANGED rewrite_rules
  /\ UNCHANGED notRewrite

\* The caller is done with the result.
RewriteNextRequest ==
  /\ rewrite_req # None
  /\ rewrite_req' = None
  /\ rewrite_out' = None
  /\ rewrite_trace' = <<>>
  /\ UNCHANGED rewrite_rules
  /\ UNCHANGED notRewrite

(***************************************************************************)
(* Claims about rewriting                                                  *)
(***************************************************************************)

\* The rules of the trace, in order.
AppliedRules == [k \in DOMAIN rewrite_trace |-> rewrite_trace[k].rule]

\* The working path a rule is tested against: the new path of the latest
\* rule applied before it, or the request path.
WorkingPathAt(i) ==
  LET before == {k \in DOMAIN rewrite_trace : rewrite_trace[k].rule < i}
  IN IF before = {} THEN unwrap(rewrite_req)
     ELSE rewrite_trace[CHOOSE k \in before : \A l \in before : l <= k].result.new_path

\* C15: Rewriter::process applies the rules in declared order, each tested
\* against the working path, and stops at a matching rule with last = true:
\* a rule is applied exactly when it matches the working path and no rule
\* before it both matched and was a last rule.
C15_RulesInOrderUntilMatchingLast ==
  rewrite_out # None =>
    /\ \A k, l \in DOMAIN rewrite_trace :
         k < l => rewrite_trace[k].rule < rewrite_trace[l].rule
    /\ \A i \in DOMAIN rewrite_rules :
         (\E k \in DOMAIN rewrite_trace : rewrite_trace[k].rule = i)
           <=> /\ is_match(rewrite_rules[i].pattern, WorkingPathAt(i))
               /\ ~\E k \in DOMAIN rewrite_trace :
                     /\ rewrite_trace[k].rule < i
                     /\ rewrite_rules[rewrite_trace[k].rule].last
    /\ \A k \in DOMAIN rewrite_trace :
         rewrite_trace[k].result.new_path =
           replace_all(rewrite_rules[rewrite_trace[k].rule].pattern,
                       WorkingPathAt(rewrite_trace[k].rule),
                       rewrite_rules[rewrite_trace[k].rule].replacement)

\* A last rule that did not match was passed over, the next rule, a last
\* rule too, matched and stopped the scan, and the rule after it, which
\* matches the working path, was not applied.
C15_Witness ==
  /\ rewrite_out # None
  /\ Len(rewrite_rules) = 3
  /\ rewrite_rules[1].last
  /\ ~is_match(rewrite_rules[1].pattern, unwrap(rewrite_req))
  /\ rewrite_rules[2].last
  /\ AppliedRules = <<2>>
  /\ is_match(rewrite_rules[3].pattern, rewrite_trace[1].result.new_path)

\* The path after the first k applied rules: the substitutions of the
\* matching rules composed in order on the request path.
RECURSIVE ComposedPath(_)
ComposedPath(k) ==
  IF k = 0 THEN unwrap(rewrite_req)
  ELSE LET rule == rewrite_rules[rewrite_trace[k].rule]
       IN replace_all(rule.pattern, ComposedPath(k - 1), rule.replacement)

\* C16: Rewriter::process returns none exactly when no rule matched;
\* otherwise it returns the result of the last rule that matched: the new
\* path is the composition of the matching rules' substitutions, and the
\* redirect flag and status are those of that last rule.
C16_ReturnsLastMatchResult ==
  rewrite_out # None =>
    LET result == unwrap(rewrite_out)
        n == Len(rewrite_trace)
    IN /\ result = None <=>
            \A i \in DOMAIN rewrite_rules :
              ~is_match(rewrite_rules[i].pattern, unwrap(rewrite_req))
       /\ result = None <=> n = 0
       /\ n > 0 =>
            LET rule == rewrite_rules[rewrite_trace[n].rule]
            IN /\ result = Some(rewrite_trace[n].result)
               /\ unwrap(result).new_path = ComposedPath(n)
               /\ unwrap(result).is_redirect = rule.redirect
               /\ unwrap(result).redirect_status = rule.redirect_status

\* Two rules matched, with different redirect flags, and the result is the
\* second's, its path the two substitutions composed.
C16_Witness ==
  /\ rewrite_out # None
  /\ Len(rewrite_trace) = 2
  /\ rewrite_trace[1].result.is_redirect # rewrite_trace[2].result.is_redirect
  /\ rewrite_trace[1].result.new_path # rewrite_trace[2].result.new_path
  /\ unwrap(rewrite_out) = Some(rewrite_trace[2].result)
  /\ unwrap(unwrap(rewrite_out)).new_path # unwrap(rewrite_req)

(***************************************************************************)
(* Acl                                                                     *)
(***************************************************************************)

\* AccessRule::Allow(condition) and AccessRule::Deny(condition); a condition
\* is a kind with its argument: Ip(address, four octets), Network(the CIDR
\* text), Path(regex), UserAgent(regex), All.
Allow(condition) == [allow |-> TRUE, condition |-> condition]
Deny(condition) == [allow |-> FALSE, condition |-> condition]
Ip(addr) == [kind |-> "Ip", arg |-> addr]
Network(cidr) == [kind |-> "Network", arg |-> cidr]
Path(regex) == [kind |-> "Path", arg |-> regex]
UserAgent(regex) == [kind |-> "UserAgent", arg |-> regex]
All == [kind |-> "All", arg |-> None]

\* AccessCondition::matches; req holds the path, the User-Agent header (if
\* any) and the client address (if known).
AccessCondition_matches(condition, req) ==
  CASE condition.kind = "Ip" ->
         IF req.client_ip # None THEN unwrap(req.client_ip) = condition.arg
         ELSE FALSE
    [] condition.kind = "Network" -> FALSE
    [] condition.kind = "Path" -> is_match(condition.arg, req.path)
    [] condition.kind = "UserAgent" ->
         IF req.user_agent # None
           THEN is_match(condition.arg, unwrap(req.user_agent))
           ELSE FALSE
    [] condition.kind = "All" -> TRUE

\* AccessRule::matches
AccessRule_matches(rule, req) == AccessCondition_matches(rule.condition, req)

\* AccessRule::allows
AccessRule_allows(rule) == rule.allow

\* A check in which a later matching rule overrides an earlier one.
RECURSIVE check_access_last(_, _, _)
check_access_last(rs, allow, req) ==
  IF rs = <<>> THEN (IF allow THEN Ok("unit") ELSE Err("AccessDenied"))
  ELSE check_access_last(
         Tail(rs),
         IF AccessRule_matches(Head(rs), req) THEN AccessRule_allows(Head(rs))
         ELSE allow,
         req)

\* Acl::check_access
RECURSIVE check_access(_, _, _)
check_access(rs, allow, req) ==
  IF rs = <<>> THEN (IF allow THEN Ok("unit") ELSE Err("AccessDenied"))
  ELSE IF AccessRule_matches(Head(rs), req)
         THEN (IF AccessRule_allows(Head(rs)) THEN Ok("unit")
               ELSE Err("AccessDenied"))
  ELSE check_access(Tail(rs), allow, req)

MaxRules == 2

admin == <<"/", "a", "d", "m", "i", "n">>
admin_x == admin \o <<"/", "x">>
bot == <<"b", "o", "t">>
moz == <<"m", "o", "z">>
cidr_10_8 == <<"1", "0", ".", "0", ".", "0", ".", "0", "/", "8">>
cidr_10_1_16 == <<"1", "0", ".", "1", ".", "0", ".", "0", "/", "1", "6">>
ip_10_1_2_3 == <<10, 1, 2, 3>>
ip_10_2_0_1 == <<10, 2, 0, 1>>
ip_11_0_0_1 == <<11, 0, 0, 1>>

\* The rules add_rule is called with.
RulePool ==
  {Deny(Path(Regex_new(admin))), Allow(All), Deny(All),
   Deny(Network(cidr_10_8)), Allow(Network(cidr_10_1_16)),
   Allow(Ip(ip_10_1_2_3)), Deny(UserAgent(Regex_new(bot)))}

AclRequests ==
  [path : {admin_x, public},
   user_agent : {None, Some(bot), Some(moz)},
   client_ip : {None, Some(ip_10_1_2_3), Some(ip_10_2_0_1), Some(ip_11_0_0_1)}]

AclIdle ==
  /\ rules = <<>>
  /\ default_allow = FALSE
  /\ acl_req = None
  /\ acl_result = None

\* Acl::new(default_allow)
AclStart ==
  /\ rules = <<>>
  /\ default_allow \in BOOLEAN
  /\ acl_req = None
  /\ acl_result = None

\* Acl::add_rule; the rule list is built before requests are checked.
AddRule ==
  /\ acl_req = None
  /\ Len(rules) < MaxRules
  /\ \E rule \in RulePool : rules' = Append(rules, rule)
  /\ UNCHANGED <<default_allow, acl_req, acl_result>>
  /\ UNCHANGED notAcl

\* Acl::check_access
CheckAccess ==
  /\ \E req \in AclRequests :
       /\ acl_req' = Some(req)
       /\ acl_result' = Some(check_access(rules, default_allow, req))
  /\ UNCHANGED <<rules, default_allow>>
  /\ UNCHANGED notAcl

(***************************************************************************)
(* Claims about access control                                             *)
(***************************************************************************)

\* C3: check_access returns the effect of the first rule, in insertion
\* order, whose condition matches: Ok for Allow, AccessDenied for Deny; with
\* no matching rule it is Ok exactly when default_allow.  So
\* [Deny(Path("/admin")), Allow(All)] denies /admin/x and allows /public,
\* and [Allow(All), Deny(Path("/admin"))] allows /admin/x.
C3_FirstMatchingRuleDecides ==
  acl_result # None =>
    LET req == unwrap(acl_req)
        hits == {i \in DOMAIN rules : AccessCondition_matches(rules[i].condition, req)}
        allowed == IF hits = {} THEN default_allow ELSE rules[Least(hits)].allow
        deny_admin == Deny(Path(Regex_new(admin)))
    IN /\ unwrap(acl_result) = IF allowed THEN Ok("unit") ELSE Err("AccessDenied")
       /\ rules = <<deny_admin, Allow(All)>> =>
            /\ req.path = admin_x => unwrap(acl_result) = Err("AccessDenied")
            /\ req.path = public => unwrap(acl_result) = Ok("unit")
       /\ rules = <<Allow(All), deny_admin>> => unwrap(acl_result) = Ok("unit")

\* /admin/x has been denied by a Deny rule standing before Allow(All),
\* against a default of allow.
C3_Witness ==
  /\ rules = <<Deny(Path(Regex_new(admin))), Allow(All)>>
  /\ default_allow
  /\ acl_req # None
  /\ unwrap(acl_req).path = admin_x
  /\ acl_result = Some(Err("AccessDenied"))

\* The number a decimal numeral denotes.
DigitOf(c) ==
  CASE c = "0" -> 0 [] c = "1" -> 1 [] c = "2" -> 2 [] c = "3" -> 3
    [] c = "4" -> 4 [] c = "5" -> 5 [] c = "6" -> 6 [] c = "7" -> 7
    [] c = "8" -> 8 [] c = "9" -> 9

RECURSIVE ParseNat(_, _)
ParseNat(s, acc) ==
  IF s = <<>> THEN acc ELSE ParseNat(Tail(s), 10 * acc + DigitOf(Head(s)))

\* 2^n
RECURSIVE Pow2(_)
Pow2(n) == IF n = 0 THEN 1 ELSE 2 * Pow2(n - 1)

\* The address lies in the block a.b.c.d/n: its first n bits are those of
\* a.b.c.d, compared octet by octet.
CidrContains(cidr, addr) ==
  LET parts == split_char(cidr, "/", <<>>)
      octets == split_char(parts[1], ".", <<>>)
      len == ParseNat(parts[2], 0)
      bits(k) == IF len >= 8 * k THEN 8
                 ELSE IF len <= 8 * (k - 1) THEN 0
                 ELSE len - 8 * (k - 1)
  IN \A k \in 1..4 :
       addr[k] \div Pow2(8 - bits(k)) = ParseNat(octets[k], 0) \div Pow2(8 - bits(k))

\* C5: a Network(cidr) condition matches exactly when the client address is
\* known and lies inside the block; so Deny(Network("10.0.0.0/8")) denies a
\* client at 10.1.2.3 and does not match one at 11.0.0.1.
C5_NetworkMatchesCidr ==
  acl_result # None =>
    LET req == unwrap(acl_req)
    IN /\ \A i \in DOMAIN rules :
            rules[i].condition.kind = "Network" =>
              (AccessCondition_matches(rules[i].condition, req)
                 <=> /\ req.client_ip # None
                     /\ CidrContains(rules[i].condition.arg, unwrap(req.client_ip)))
       /\ (rules = <<Deny(Network(cidr_10_8))>> /\ req.client_ip = Some(ip_10_1_2_3))
            => unwrap(acl_result) = Err("AccessDenied")


(***************************************************************************)
(* BasicAuthenticator.  Here a string is a sequence of code points and a   *)
(* byte string a sequence of numbers below 256.                            *)
(***************************************************************************)

\* "Basic "
Basic_ == <<66, 97, 115, 105, 99, 32>>

\* str::trim_start_matches(&str): the prefix is removed as often as it
\* leads the string.
RECURSIVE trim_start_matches(_, _)
trim_start_matches(s, prefix) ==
  IF prefix # <<>> /\ starts_with(s, prefix)
    THEN trim_start_matches(Tail_from(s, Len(prefix) + 1), prefix)
    ELSE s

\* The value of a symbol of the standard base64 alphabet (A-Z, a-z, 0-9,
\* "+", "/"), or -1 for any other character.
b64_value(c) ==
  IF c >= 65 /\ c <= 90 THEN c - 65
  ELSE IF c >= 97 /\ c <= 122 THEN c - 71
  ELSE IF c >= 48 /\ c <= 57 THEN c + 4
  ELSE IF c = 43 THEN 62
  ELSE IF c = 47 THEN 63
  ELSE -1

\* The bytes of one group of four symbols, "=" (61) padding the last group;
\* an empty result with ok = FALSE for a symbol outside the alphabet,
\* misplaced padding or non-zero trailing bits.
decode_quad(q, is_last) ==
  LET v == [i \in 1..4 |-> b64_value(q[i])]
      bad == [ok |-> FALSE, bytes |-> <<>>]
  IN IF v[1] < 0 \/ v[2] < 0 THEN bad
     ELSE IF q[3] = 61 /\ q[4] = 61 THEN
       IF is_last /\ v[2] % 16 = 0
         THEN [ok |-> TRUE, bytes |-> <<v[1] * 4 + v[2] \div 16>>]
         ELSE bad
     ELSE IF v[3] < 0 THEN bad
     ELSE IF q[4] = 61 THEN
       IF is_last /\ v[3] % 4 = 0
         THEN [ok |-> TRUE,
               bytes |-> <<v[1] * 4 + v[2] \div 16,
                           (v[2] % 16) * 16 + v[3] \div 4>>]
         ELSE bad
     ELSE IF v[4] < 0 THEN bad
     ELSE [ok |-> TRUE,
           bytes |-> <<v[1] * 4 + v[2] \div 16,
                       (v[2] % 16) * 16 + v[3] \div 4,
                       (v[3] % 4) * 64 + v[4]>>]

\* base64::decode for padded input: Ok(bytes) or Err.
RECURSIVE base64_decode(_)
base64_decode(s) ==
  IF s = <<>> THEN Ok(<<>>)
  ELSE IF Len(s) < 4 THEN Err("DecodeError")
  ELSE LET q == decode_quad(SubSeq(s, 1, 4), Len(s) = 4)
           rest == base64_decode(Tail_from(s, 5))
       IN IF q.ok /\ rest.ok THEN Ok(q.bytes \o rest.value)
          ELSE Err("DecodeError")

\* String::from_utf8_lossy, for bytes that are ASCII; any other byte is
\* shown as U+FFFD.
from_utf8_lossy(bytes) ==
  [i \in DOMAIN bytes |-> IF bytes[i] < 128 THEN bytes[i] ELSE 65533]

\* str::splitn(2, ':'): the text before the first ":" and the text after
\* it, or the whole text when it holds no ":".
splitn2(s) ==
  LET colons == {i \in DOMAIN s : s[i] = 58}
  IN IF colons = {} THEN <<s>>
     ELSE LET i == CHOOSE k \in colons : \A j \in colons : k <= j
          IN <<SubSeq(s, 1, i - 1), Tail_from(s, i + 1)>>

\* BasicAuthenticator::parse_basic_auth
parse_basic_auth(header_value) ==
  IF ~starts_with(header_value, Basic_) THEN Err("InvalidCredentials")
  ELSE LET encoded == trim_start_matches(header_value, Basic_)
           bytes == base64_decode(encoded)
       IN IF ~bytes.ok THEN Err("InvalidCredentials")
          ELSE LET decoded == from_utf8_lossy(bytes.value)
                   parts == splitn2(decoded)
               IN IF Len(parts) # 2 THEN Err("InvalidCredentials")
                  ELSE Ok(parts)

\* HeaderValue::to_str succeeds on visible ASCII and tabs.
to_str_ok(value) ==
  \A i \in DOMAIN value : value[i] = 9 \/ (value[i] >= 32 /\ value[i] < 127)

\* authenticate answering a mismatch with Ok(false)
authenticate_ok_false(creds, header) ==
  IF header = None THEN Err("MissingCredentials")
  ELSE IF ~to_str_ok(unwrap(header)) THEN Err("InvalidCredentials")
  ELSE LET parsed == parse_basic_auth(unwrap(header))
       IN IF ~parsed.ok THEN parsed
          ELSE LET username == parsed.value[1]
                   password == parsed.value[2]
               IN Ok(username \in DOMAIN creds /\ creds[username] = password)

\* BasicAuthenticator::authenticate; header is the Authorization header, if
\* the request has one.
authenticate(creds, header) ==
  IF header = None THEN Err("MissingCredentials")
  ELSE IF ~to_str_ok(unwrap(header)) THEN Err("InvalidCredentials")
  ELSE LET parsed == parse_basic_auth(unwrap(header))
       IN IF ~parsed.ok THEN parsed
          ELSE LET username == parsed.value[1]
                   password == parsed.value[2]
               IN IF username \in DOMAIN creds /\ creds[username] = password
                    THEN Ok(TRUE)
                    ELSE Err("InvalidCredentials")

(***************************************************************************)
(* The requests the authenticator sees                                     *)
(***************************************************************************)

\* The symbol of a base64 value.
b64_symbol(v) ==
  IF v < 26 THEN v + 65
  ELSE IF v < 52 THEN v + 71
  ELSE IF v < 62 THEN v - 4
  ELSE IF v = 62 THEN 43
  ELSE 47

\* The padded base64 encoding a client sends.
RECURSIVE base64_encode(_)
base64_encode(bytes) ==
  IF bytes = <<>> THEN <<>>
  ELSE IF Len(bytes) = 1 THEN
    <<b64_symbol(bytes[1] \div 4), b64_symbol((bytes[1] % 4) * 16), 61, 61>>
  ELSE IF Len(bytes) = 2 THEN
    <<b64_symbol(bytes[1] \div 4),
      b64_symbol((bytes[1] % 4) * 16 + bytes[2] \div 16),
      b64_symbol((bytes[2] % 16) * 4), 61>>
  ELSE <<b64_symbol(bytes[1] \div 4),
         b64_symbol((bytes[1] % 4) * 16 + bytes[2] \div 16),
         b64_symbol((bytes[2] % 16) * 4 + bytes[3] \div 64),
         b64_symbol(bytes[3] % 64)>>
       \o base64_encode(Tail_from(bytes, 4))

MaxPlainLen == 4

\* "u", "p", ":"
PlainChars == {117, 112, 58}
user_u == <<117>>
user_p == <<112>>
Users == {user_u, user_p}
Passwords == {<<112>>, <<112, 58, 112>>, <<112, 112>>}

\* What a client puts after the scheme: the encoding of some text, the same
\* with a character outside the alphabet ("!") in front, or with one more
\* symbol at the end.
Payloads ==
  UNION {{base64_encode(t), <<33>> \o base64_encode(t), base64_encode(t) \o <<65>>} :
           t \in SeqsUpTo(PlainChars, MaxPlainLen)}

\* The scheme: none, "Basic ", "Basic " twice, "basic ", or "Basic"
\* followed by a non-ASCII space.
Schemes ==
  {<<>>, Basic_, Basic_ \o Basic_, <<98, 97, 115, 105, 99, 32>>,
   <<66, 97, 115, 105, 99, 160>>}

AuthHeaders == {None} \cup {Some(sch \o pl) : sch \in Schemes, pl \in Payloads}

AuthIdle ==
  /\ credentials = <<>>
  /\ auth_header = None
  /\ auth_result = None

\* BasicAuthenticator::add_user; the users are added before requests come.
AddUser ==
  /\ auth_result = None
  /\ \E u \in Users, pw \in Passwords :
       /\ ~(u \in DOMAIN credentials /\ credentials[u] = pw)
       /\ credentials' = [x \in DOMAIN credentials \cup {u} |->
                            IF x = u THEN pw ELSE credentials[x]]
  /\ UNCHANGED <<auth_header, auth_result>>
  /\ UNCHANGED notAuth

\* BasicAuthenticator::authenticate
Authenticate ==
  /\ auth_result = None
  /\ \E header \in AuthHeaders :
       /\ auth_header' = Some(header)
       /\ auth_result' = Some(authenticate(credentials, header))
  /\ UNCHANGED credentials
  /\ UNCHANGED notAuth

\* The caller has used the result; the next request may come.
AuthNextRequest ==
  /\ auth_result # None
  /\ auth_header' = None
  /\ auth_result' = None
  /\ UNCHANGED credentials
  /\ UNCHANGED notAuth


(***************************************************************************)
(* Claims about basic authentication                                       *)
(***************************************************************************)

\* The header is "Basic " followed by the base64 of user:password for a
\* user the credential map maps to exactly that password.
CarriesStoredCredentials(header) ==
  \E u \in DOMAIN credentials :
    header = Basic_ \o base64_encode(u \o <<58>> \o credentials[u])

\* C6: authenticate returns Ok(true) exactly when the Authorization header
\* is "Basic " followed by the base64 of user:password and the credential
\* map maps that user to that password; without a header the result is
\* MissingCredentials, and every other header yields InvalidCredentials.
C6_AuthenticateExactlyStoredCredentials ==
  auth_result # None =>
    LET header == unwrap(auth_header)
        result == unwrap(auth_result)
    IN /\ result = Ok(TRUE)
            <=> (header # None /\ CarriesStoredCredentials(unwrap(header)))
       /\ header = None => result = Err("MissingCredentials")
       /\ (header # None /\ result # Ok(TRUE)) => result = Err("InvalidCredentials")

\* C7: what is decoded is exactly the rest of the header after its one
\* leading "Basic ", and the decoded text is split at its first ":" only;
\* so "Basic Basic <base64 of user:pass>" is not taken for user:pass but
\* fails with InvalidCredentials.
C7_DecodesRestAfterOnePrefix ==
  (auth_result # None /\ unwrap(auth_header) # None) =>
    LET header == unwrap(unwrap(auth_header))
        result == unwrap(auth_result)
        rest == Tail_from(header, Len(Basic_) + 1)
        bytes == base64_decode(rest)
    IN /\ (starts_with(header, Basic_) /\ result = Ok(TRUE)) =>
            /\ bytes.ok
            /\ \E u \in DOMAIN credentials :
                 from_utf8_lossy(bytes.value) = u \o <<58>> \o credentials[u]
       /\ (\E u \in DOMAIN credentials :
             header = Basic_ \o Basic_
                        \o base64_encode(u \o <<58>> \o credentials[u]))
            => result = Err("InvalidCredentials")


(***************************************************************************)
(* StaticFileHandler::handle and ConnectionHandler::handle_request         *)
(***************************************************************************)

\* What the filesystem answers while one request is served.
FsAnswers ==
  {fs \in [exists : BOOLEAN, is_dir : BOOLEAN, default_exists : BOOLEAN,
           open_ok : BOOLEAN, metadata_ok : BOOLEAN, read_ok : BOOLEAN,
           read_dir_ok : BOOLEAN] :
     /\ fs.is_dir => fs.exists
     /\ fs.default_exists => fs.is_dir}

\* A response: its status and the file whose content it carries, if any.
Response(status, file) == [status |-> status, file |-> file]

\* StaticFileHandler::serve_file
StaticFileHandler_serve_file(path, fs) ==
  IF ~fs.open_ok THEN Ok(Response(404, None))
  ELSE IF ~fs.metadata_ok THEN Ok(Response(500, None))
  ELSE IF ~fs.read_ok THEN Ok(Response(500, None))
  ELSE Ok(Response(200, Some(path)))

\* StaticFileHandler::list_directory
StaticFileHandler_list_directory(listing, fs) ==
  IF ~listing THEN Ok(Response(403, None))
  ELSE IF ~fs.read_dir_ok THEN Err("io::Error")
  ELSE Ok(Response(200, None))

\* A StaticFileHandler::handle that prefers the listing to the default file.
StaticFileHandler_handle_listing_first(root, listing, default_file, path, fs) ==
  LET path_on_disk == get_file_path(root, path)
  IN IF ~fs.exists THEN Ok(Response(404, None))
     ELSE IF fs.is_dir THEN
       IF listing THEN StaticFileHandler_list_directory(listing, fs)
       ELSE IF fs.default_exists
         THEN StaticFileHandler_serve_file(join(path_on_disk, default_file), fs)
       ELSE Ok(Response(403, None))
     ELSE StaticFileHandler_serve_file(path_on_disk, fs)

\* StaticFileHandler::handle
StaticFileHandler_handle(root, listing, default_file, path, fs) ==
  LET path_on_disk == get_file_path(root, path)
  IN IF ~fs.exists THEN Ok(Response(404, None))
     ELSE IF fs.is_dir THEN
       IF fs.default_exists
         THEN StaticFileHandler_serve_file(join(path_on_disk, default_file), fs)
       ELSE IF listing THEN StaticFileHandler_list_directory(listing, fs)
       ELSE Ok(Response(403, None))
     ELSE StaticFileHandler_serve_file(path_on_disk, fs)

DispatchPaths == {api_x, <<"/">>, <<"/", ".", ".", "/", "x">>, <<"*">>}

DispIdle ==
  /\ enable_directory_listing = FALSE
  /\ disp_pc = "idle"
  /\ disp_req = None
  /\ disp_route = None
  /\ disp_fs = None
  /\ stages = <<>>
  /\ response = None

\* ConnectionHandler::process: Router::new(config) and
\* StaticFileHandler::new(root_dir, directory_listing, default_file).
DispStart ==
  /\ vhost_configs \in VhostConfigs
  /\ vhosts = Router_new_vhosts(vhost_configs)
  /\ default_routes = Router_new_default_routes
  /\ route_req = None
  /\ route_result = None
  /\ consulted = <<>>
  /\ root_dir \in RootDirs
  /\ spa = FALSE
  /\ req_path = None
  /\ file_path = None
  /\ read_paths = <<>>
  /\ served_path = None
  /\ fs_seen = None
  /\ http_response = None
  /\ enable_directory_listing \in BOOLEAN
  /\ disp_pc = "idle"
  /\ disp_req = None
  /\ disp_route = None
  /\ disp_fs = None
  /\ stages = <<>>
  /\ response = None

\* The service function is called with a request.
Receive ==
  /\ disp_pc = "idle"
  /\ \E path \in DispatchPaths, host \in HostHeaders :
       disp_req' = Some([path |-> path, host |-> host])
  /\ disp_pc' = "received"
  /\ disp_route' = None
  /\ disp_fs' = None
  /\ stages' = <<>>
  /\ response' = None
  /\ UNCHANGED <<enable_directory_listing, pathVars, routerVars>>
  /\ UNCHANGED notDisp

\* handle_request: router.route(&req), which resolves the host and matches
\* the route.
Dispatch ==
  /\ disp_pc = "received"
  /\ disp_route' = Some(Router_route(vhosts, default_routes, unwrap(disp_req)))
  /\ stages' = stages \o <<"HostResolved", "RouteMatched">>
  /\ disp_pc' = "routed"
  /\ UNCHANGED <<enable_directory_listing, disp_req, disp_fs, response, pathVars,
               routerVars>>
  /\ UNCHANGED notDisp

\* handle_request: the match on route_result.  A "static" route and a
\* routing error both go to the static handler; any other handler type is
\* answered with 500.  A path that names a directory is not a file.
Serve ==
  /\ disp_pc = "routed"
  /\ \E fs \in FsAnswers :
       LET result == unwrap(disp_route)
           to_static == ~result.ok \/ result.value.handler_type = "static"
       IN IF to_static
            THEN /\ (fs.exists /\ names_directory(
                                     get_file_path(root_dir, unwrap(disp_req).path)))
                      => fs.is_dir
                 /\ response' =
                      Some(StaticFileHandler_handle(
                             root_dir, enable_directory_listing, index_html,
                             unwrap(disp_req).path, fs))
                 /\ disp_fs' = Some(fs)
                 /\ stages' = Append(stages, "Served")
            ELSE /\ response' = Some(Ok(Response(500, None)))
                 /\ UNCHANGED <<disp_fs, stages>>
  /\ disp_pc' = "done"
  /\ UNCHANGED <<enable_directory_listing, disp_req, disp_route, pathVars, routerVars>>
  /\ UNCHANGED notDisp

\* The response is written; the connection takes the next request.
Respond ==
  /\ disp_pc = "done"
  /\ disp_pc' = "idle"
  /\ disp_req' = None
  /\ disp_route' = None
  /\ disp_fs' = None
  /\ stages' = <<>>
  /\ response' = None
  /\ UNCHANGED <<enable_directory_listing, pathVars, routerVars>>
  /\ UNCHANGED notDisp

(***************************************************************************)
(* Claims about the dispatcher                                             *)
(***************************************************************************)

PipelineOrder ==
  <<"Rewritten", "HostResolved", "RouteMatched", "AccessChecked", "AuthChecked",
    "Served">>

\* Where a stage stands in a sequence of stages; 0 when it is not in it.
PositionIn(seq, stage) ==
  IF \E i \in DOMAIN seq : seq[i] = stage
    THEN CHOOSE i \in DOMAIN seq : seq[i] = stage
    ELSE 0

\* The response carries the content of a file.
FileServed ==
  /\ response # None
  /\ unwrap(response).ok
  /\ unwrap(response).value.file # None

\* C4: the stages of a request run in the order rewrite, host resolution,
\* route match, ACL check, auth check, serve; nothing is served unless the
\* ACL check and then the authentication check have been run for the
\* request, a failure of either ending the request before the serve stage.
C4_GatesBeforeServe ==
  /\ \A i, j \in DOMAIN stages :
       i < j => PositionIn(PipelineOrder, stages[i]) < PositionIn(PipelineOrder, stages[j])
  /\ FileServed =>
       /\ PositionIn(stages, "AccessChecked") > 0
       /\ PositionIn(stages, "AccessChecked") < PositionIn(stages, "AuthChecked")
       /\ PositionIn(stages, "AuthChecked") < PositionIn(stages, "Served")


\* The document root the request's file is to be resolved under: that of the
\* first virtual host matching the Host header, else the default root.
DocumentRootFor(req) ==
  LET hosts == IF req.host # None THEN MatchingHosts(vhosts, HostOf(req)) ELSE {}
  IN IF hosts = {} THEN root_dir ELSE vhosts[Least(hosts)].document_root

\* C13: the file served for a request whose Host header matches a virtual
\* host is resolved under that host's document root, and under the default
\* root directory only when no virtual host matches.
C13_ServedUnderVirtualHostRoot ==
  FileServed =>
    LET req == unwrap(disp_req)
        resolved == get_file_path(DocumentRootFor(req), req.path)
    IN unwrap(response).value.file \in
         {Some(resolved), Some(join(resolved, index_html))}

\* C14: when Router::route fails with NoMatchingRoute the dispatcher invokes
\* the static-file handler on the request, once, instead of answering with
\* an error of its own, and the request is answered by one response.
C14_NoMatchingRouteFallsBackToStatic ==
  (disp_pc = "done" /\ disp_route = Some(Err("NoMatchingRoute"))) =>
    /\ stages = <<"HostResolved", "RouteMatched", "Served">>
    /\ response # None
    /\ unwrap(response).ok

\* C17: a configured virtual-host pattern that does not compile rejects
\* startup: no request is handled by a router that lacks the virtual host
\* of one of the configured hosts.
C17_InvalidPatternRejectsStartup ==
  disp_req # None =>
    /\ \A i \in DOMAIN vhost_configs :
         VirtualHost_new(vhost_configs[i].host, vhost_configs[i].root_dir).ok
    /\ Len(vhosts) = Len(vhost_configs)
    /\ \A i \in DOMAIN vhosts : vhosts[i].hostname_pattern = vhost_configs[i].host

\* The static handler has answered the request.
Handled == disp_pc = "done" /\ disp_fs # None

slash == <<47>>
dot_dot == <<46, 46>>

\* OsStr::to_string_lossy on a file name
to_string_lossy(file_name) == from_utf8_lossy(file_name)

\* str::trim_end_matches(c)
RECURSIVE trim_end_matches(_, _)
trim_end_matches(s, c) ==
  IF s # <<>> /\ s[Len(s)] = c THEN trim_end_matches(SubSeq(s, 1, Len(s) - 1), c)
  ELSE s

\* String::cmp: lexicographic on the UTF-8 bytes, which orders as the code
\* points do.
RECURSIVE cmp(_, _)
cmp(a, b) ==
  IF a = <<>> /\ b = <<>> THEN "Equal"
  ELSE IF a = <<>> THEN "Less"
  ELSE IF b = <<>> THEN "Greater"
  ELSE IF a[1] < b[1] THEN "Less"
  ELSE IF a[1] > b[1] THEN "Greater"
  ELSE cmp(Tail(a), Tail(b))

\* The tuple pushed for one entry: (file_name, entry_url, file_type).
listing_entry(entry, path_of_req) ==
  LET file_name == to_string_lossy(entry.file_name)
      is_dir == entry.is_dir
      file_type == IF is_dir THEN "Directory" ELSE "File"
      entry_url == trim_end_matches(path_of_req, 47) \o slash \o file_name
                     \o (IF is_dir THEN slash ELSE <<>>)
  IN <<file_name, entry_url, file_type>>

\* The comparator with names compared first and the type ignored.
compare_entries_by_name(a, b) == cmp(a[1], b[1])

\* The closure given to sort_by: directories first, then by name.
compare_entries(a, b) ==
  IF a[3] = "Directory" /\ b[3] # "Directory" THEN "Less"
  ELSE IF a[3] # "Directory" /\ b[3] = "Directory" THEN "Greater"
  ELSE cmp(a[1], b[1])

\* slice::sort_by is stable: an element goes after the last one that does
\* not compare Greater than it.
RECURSIVE sort_insert(_, _)
sort_insert(sorted, e) ==
  IF sorted = <<>> THEN <<e>>
  ELSE IF compare_entries(sorted[Len(sorted)], e) = "Greater"
       THEN sort_insert(SubSeq(sorted, 1, Len(sorted) - 1), e)
              \o <<sorted[Len(sorted)]>>
       ELSE sorted \o <<e>>

RECURSIVE sort_by(_)
sort_by(entries) ==
  IF entries = <<>> THEN <<>>
  ELSE sort_insert(sort_by(SubSeq(entries, 1, Len(entries) - 1)),
                   entries[Len(entries)])

parent_row == <<dot_dot, dot_dot, "Parent Directory">>

\* read is what the directory reads return: read_dir failing, next_entry
\* failing on the way, or all the entries.
list_directory(listing, read, path_of_req) ==
  IF ~listing
  THEN Ok([status |-> 403, content_type |-> "text/html", title |-> None,
           rows |-> <<>>])
  ELSE IF ~read.ok THEN Err("io::Error")
  ELSE LET entries == sort_by([i \in DOMAIN read.value |->
                                  listing_entry(read.value[i], path_of_req)])
       IN Ok([status |-> 200, content_type |-> "text/html",
              title |-> Some(path_of_req),
              rows |-> (IF path_of_req # slash THEN <<parent_row>> ELSE <<>>)
                         \o entries])

MaxEntries == 3

\* File names: "A", "a", "ab", "b", and two that are not UTF-8.
ListingNames == {<<65>>, <<97>>, <<97, 98>>, <<98>>, <<200>>, <<201>>}

\* Request paths: "/", "/d", "/d/", "//".
ListingPaths == {slash, <<47, 100>>, <<47, 100, 47>>, <<47, 47>>}

ReadFailures == {"read_dir", "next_entry"}

ListingIdle ==
  /\ enable_listing = FALSE
  /\ directory = <<>>
  /\ listing_req = None
  /\ listing_result = None

ListingStart ==
  /\ enable_listing \in BOOLEAN
  /\ directory = <<>>
  /\ listing_req = None
  /\ listing_result = None

\* A file or a directory is created in the listed directory; read_dir yields
\* the entries in an order of the filesystem's choosing.
CreateEntry ==
  /\ listing_req = None
  /\ Len(directory) < MaxEntries
  /\ \E name \in ListingNames, is_dir \in BOOLEAN, at \in 0..Len(directory) :
       /\ \A i \in DOMAIN directory : directory[i].file_name # name
       /\ directory' = SubSeq(directory, 1, at)
                         \o <<[file_name |-> name, is_dir |-> is_dir]>>
                         \o SubSeq(directory, at + 1, Len(directory))
  /\ UNCHANGED <<enable_listing, listing_req, listing_result>>
  /\ UNCHANGED notListing

ListDirectory ==
  /\ listing_req = None
  /\ \E path_of_req \in ListingPaths,
        read \in {Ok(directory)} \cup {Err(f) : f \in ReadFailures} :
       /\ listing_req' = Some(path_of_req)
       /\ listing_result' =
            Some(list_directory(enable_listing, read, path_of_req))
  /\ UNCHANGED <<enable_listing, directory>>
  /\ UNCHANGED notListing

ListingNextRequest ==
  /\ listing_req # None
  /\ listing_req' = None
  /\ listing_result' = None
  /\ UNCHANGED <<enable_listing, directory>>
  /\ UNCHANGED notListing

\* The rows of a generated listing, and those of them that are entries.
ListingRows == unwrap(listing_result).value.rows
EntryRows == SelectSeq(ListingRows, LAMBDA r : r[3] # "Parent Directory")
Listed ==
  /\ listing_result # None
  /\ unwrap(listing_result).ok
  /\ unwrap(listing_result).value.status = 200

CountOf(s, x) == Cardinality({i \in DOMAIN s : s[i] = x})

\* C21: in a generated listing every directory row comes before every file
\* row, each of the two groups is in ascending name order, every entry of the
\* directory has exactly one row, and the parent row ".." is there exactly
\* when the request path is not "/".
C21_ListingOrder ==
  Listed =>
    LET path_of_req == unwrap(listing_req)
        pushed == [i \in DOMAIN directory |->
                     listing_entry(directory[i], path_of_req)]
    IN /\ \A i, j \in DOMAIN EntryRows :
            i < j =>
              /\ ~(EntryRows[i][3] = "File" /\ EntryRows[j][3] = "Directory")
              /\ EntryRows[i][3] = EntryRows[j][3]
                   => cmp(EntryRows[i][1], EntryRows[j][1]) # "Greater"
       /\ Len(EntryRows) = Len(directory)
       /\ \A i \in DOMAIN pushed :
            CountOf(EntryRows, pushed[i]) = CountOf(pushed, pushed[i])
       /\ CountOf(ListingRows, parent_row)
            = (IF path_of_req # slash THEN 1 ELSE 0)
       /\ path_of_req # slash => ListingRows[1] = parent_row

\* A listing below the root of a directory that read_dir yields with a file
\* ahead of a directory and the names out of order.
C21_Witness ==
  /\ Listed
  /\ unwrap(listing_req) # slash
  /\ Len(directory) = 3
  /\ ~directory[1].is_dir /\ directory[2].is_dir /\ directory[3].is_dir
  /\ cmp(directory[2].file_name, directory[3].file_name) = "Greater"

(***************************************************************************)
(* Response assembly: server.rs build_success_response on a FileResponse,  *)
(* and the response that StaticFileHandler::serve_file builds.  Header      *)
(* names, header values and MIME types are sequences of characters; a byte  *)
(* vector is the file's bytes, an encoding of them, or what an encoder had  *)
(* written when it failed.                                                  *)
(***************************************************************************)
Raw(len) == [form |-> "raw", encoding |-> "", len |-> len]
Encoded(encoding, len) == [form |-> "encoded", encoding |-> encoding, len |-> len]
Partial(encoding, len) == [form |-> "partial", encoding |-> encoding, len |-> len]
Vec_new == Raw(0)

gzip == <<"g", "z", "i", "p">>
br == <<"b", "r">>
deflate == <<"d", "e", "f", "l", "a", "t", "e">>

\* should_compress, the same text in utils/compression.rs and in server.rs
COMPRESSIBLE_TYPES ==
  <<<<"t", "e", "x", "t", "/">>,
    <<"a", "p", "p", "l", "i", "c", "a", "t", "i", "o", "n", "/", "j", "s", "o", "n">>,
    <<"a", "p", "p", "l", "i", "c", "a", "t", "i", "o", "n", "/", "j", "a", "v", "a", "s", "c", "r", "i", "p", "t">>,
    <<"a", "p", "p", "l", "i", "c", "a", "t", "i", "o", "n", "/", "x", "m", "l">>,
    <<"i", "m", "a", "g", "e", "/", "s", "v", "g", "+", "x", "m", "l">>,
    <<"a", "p", "p", "l", "i", "c", "a", "t", "i", "o", "n", "/", "w", "a", "s", "m">>>>

should_compress(mime) ==
  \E i \in DOMAIN COMPRESSIBLE_TYPES : starts_with(mime, COMPRESSIBLE_TYPES[i])

\* utils/compression.rs compress_gzip and compress_deflate: the encoder's
\* write_all or finish may return an io::Error.
utils_compress_gzip(data, encoder) ==
  IF encoder = "ok" THEN Ok(Encoded("gzip", data.len)) ELSE Err("io::Error")

utils_compress_deflate(data, encoder) ==
  IF encoder = "ok" THEN Ok(Encoded("deflate", data.len)) ELSE Err("io::Error")

MinCompressLen == 1024

\* utils/compression.rs compress_if_needed: (bytes, Option<encoding>)
compress_if_needed(data, mime_type, accept_encoding, encoder) ==
  IF data.len < MinCompressLen \/ ~should_compress(mime_type) THEN <<data, None>>
  ELSE IF contains(accept_encoding, gzip)
    THEN LET compressed == utils_compress_gzip(data, encoder)
         IN IF compressed.ok THEN <<compressed.value, Some(gzip)>>
            ELSE <<data, None>>
  ELSE IF contains(accept_encoding, deflate)
    THEN LET compressed == utils_compress_deflate(data, encoder)
         IN IF compressed.ok THEN <<compressed.value, Some(deflate)>>
            ELSE <<data, None>>
  ELSE <<data, None>>

\* str::to_lowercase on ASCII text
lower_case_of ==
  [c \in {UpperCase[k] : k \in DOMAIN UpperCase} |->
     LowerCase[CHOOSE k \in DOMAIN UpperCase : UpperCase[k] = c]]

to_lowercase(h) ==
  [i \in DOMAIN h |->
     IF h[i] \in DOMAIN lower_case_of THEN lower_case_of[h[i]] ELSE h[i]]

\* compression.rs CompressionType::from_accept_encoding
from_accept_encoding(header) ==
  IF header = None THEN "None"
  ELSE LET encodings == to_lowercase(unwrap(header))
       IN IF contains(encodings, br) THEN "Brotli"
          ELSE IF contains(encodings, gzip) THEN "Gzip"
          ELSE "None"

\* CompressionType::content_encoding
content_encoding(compression_type) ==
  CASE compression_type = "None" -> None
    [] compression_type = "Gzip" -> Some(gzip)
    [] compression_type = "Brotli" -> Some(br)

\* compression.rs compress_gzip: an encoder error leaves an empty vector.
compress_gzip(data, encoder) ==
  IF encoder = "ok" THEN Encoded("gzip", data.len) ELSE Vec_new

\* compression.rs compress_brotli: the error is dropped with .ok() and the
\* output written so far is returned.
compress_brotli(data, encoder) ==
  IF encoder = "ok" THEN Encoded("br", data.len) ELSE Partial("br", data.len)

\* compression.rs compress
compress(data, compression_type, encoder) ==
  CASE compression_type = "None" -> data
    [] compression_type = "Gzip" -> compress_gzip(data, encoder)
    [] compression_type = "Brotli" -> compress_brotli(data, encoder)

CONTENT_TYPE == <<"c", "o", "n", "t", "e", "n", "t", "-", "t", "y", "p", "e">>
CONTENT_ENCODING == <<"c", "o", "n", "t", "e", "n", "t", "-", "e", "n", "c", "o", "d", "i", "n", "g">>
CACHE_CONTROL == <<"c", "a", "c", "h", "e", "-", "c", "o", "n", "t", "r", "o", "l">>
LAST_MODIFIED == <<"l", "a", "s", "t", "-", "m", "o", "d", "i", "f", "i", "e", "d">>
ACCESS_CONTROL_ALLOW_ORIGIN ==
  <<"a", "c", "c", "e", "s", "s", "-", "c", "o", "n", "t", "r", "o", "l", "-", "a", "l", "l", "o", "w", "-", "o", "r", "i", "g", "i", "n">>
ACCESS_CONTROL_ALLOW_METHODS ==
  <<"a", "c", "c", "e", "s", "s", "-", "c", "o", "n", "t", "r", "o", "l", "-", "a", "l", "l", "o", "w", "-", "m", "e", "t", "h", "o", "d", "s">>
ACCESS_CONTROL_ALLOW_HEADERS ==
  <<"a", "c", "c", "e", "s", "s", "-", "c", "o", "n", "t", "r", "o", "l", "-", "a", "l", "l", "o", "w", "-", "h", "e", "a", "d", "e", "r", "s">>

\* A header map is the (name, value) pairs in insertion order.
\* HeaderName::from_bytes takes the name to lower case.
HeaderName(name) == to_lowercase(name)

header_without(headers, name) ==
  LET header_name == HeaderName(name)
  IN SelectSeq(headers, LAMBDA pair : pair[1] # header_name)

\* HeaderMap::append: the value is added to those the name has.
append_header(headers, name, value) ==
  headers \o <<<<HeaderName(name), value>>>>

\* HttpResponseBuilder::insert_header and ResponseBuilder::header, for a valid
\* name and value: HeaderMap::insert replaces the values the name has.
insert_header(headers, name, value) ==
  header_without(headers, name) \o <<<<HeaderName(name), value>>>>

\* server.rs process_content_with_compression: (content, builder)
process_content_with_compression(req, config, file_response, builder, encoder) ==
  IF ~config.compression \/ ~should_compress(file_response.mime)
    THEN <<file_response.content, builder>>
  ELSE LET compression_type == from_accept_encoding(req.accept_encoding)
       IN IF compression_type = "None" THEN <<file_response.content, builder>>
          ELSE <<compress(file_response.content, compression_type, encoder),
                 insert_header(builder, CONTENT_ENCODING,
                               unwrap(content_encoding(compression_type)))>>

CACHEABLE_TYPES ==
  <<<<"t", "e", "x", "t", "/", "c", "s", "s">>,
    <<"t", "e", "x", "t", "/", "j", "a", "v", "a", "s", "c", "r", "i", "p", "t">>,
    <<"a", "p", "p", "l", "i", "c", "a", "t", "i", "o", "n", "/", "j", "a", "v", "a", "s", "c", "r", "i", "p", "t">>,
    <<"i", "m", "a", "g", "e", "/">>,
    <<"f", "o", "n", "t", "/">>,
    <<"a", "p", "p", "l", "i", "c", "a", "t", "i", "o", "n", "/", "f", "o", "n", "t">>>>

is_cacheable(mime) ==
  \E i \in DOMAIN CACHEABLE_TYPES : starts_with(mime, CACHEABLE_TYPES[i])

Digits == <<"0", "1", "2", "3", "4", "5", "6", "7", "8", "9">>
two_digits(n) == <<Digits[(n \div 10) + 1], Digits[(n % 10) + 1]>>

\* The RFC 1123 date of a time within a minute of the Unix epoch, given in
\* seconds since the epoch: what format("%a, %d %b %Y %H:%M:%S GMT") and
\* httpdate::fmt_http_date write.
http_date(seconds) ==
  IF seconds >= 0
    THEN <<"T", "h", "u", ",", " ", "0", "1", " ", "J", "a", "n", " ", "1", "9", "7", "0", " ", "0", "0", ":", "0", "0", ":">>
           \o two_digits(seconds) \o <<" ", "G", "M", "T">>
    ELSE <<"W", "e", "d", ",", " ", "3", "1", " ", "D", "e", "c", " ", "1", "9", "6", "9", " ", "2", "3", ":", "5", "9", ":">>
           \o two_digits(60 + seconds) \o <<" ", "G", "M", "T">>

\* utils.rs HttpDateExt::into_http_date
into_http_date(modified) == Ok(http_date(modified))

public_max_age_3600 ==
  <<"p", "u", "b", "l", "i", "c", ",", " ", "m", "a", "x", "-", "a", "g", "e", "=", "3", "6", "0", "0">>

\* server.rs add_cache_headers
add_cache_headers(builder, config, file_response) ==
  IF ~config.cache \/ ~is_cacheable(file_response.mime) THEN builder
  ELSE LET cached == insert_header(builder, CACHE_CONTROL, public_max_age_3600)
       IN IF file_response.modified # None
               /\ into_http_date(unwrap(file_response.modified)).ok
            THEN insert_header(cached, LAST_MODIFIED,
                   into_http_date(unwrap(file_response.modified)).value)
            ELSE cached

star == <<"*">>
GET_HEAD_OPTIONS == <<"G", "E", "T", ",", " ", "H", "E", "A", "D", ",", " ", "O", "P", "T", "I", "O", "N", "S">>

\* server.rs add_cors_headers
add_cors_headers(builder, config, file_response) ==
  IF ~config.cors THEN builder
  ELSE insert_header(
         insert_header(
           insert_header(builder, ACCESS_CONTROL_ALLOW_ORIGIN, star),
           ACCESS_CONTROL_ALLOW_METHODS, GET_HEAD_OPTIONS),
         ACCESS_CONTROL_ALLOW_HEADERS, star)

\* add_custom_headers with HeaderMap::append in place of insert
RECURSIVE append_custom_headers(_, _, _)
append_custom_headers(builder, config, file_response) ==
  IF config.headers = <<>> THEN builder
  ELSE append_custom_headers(
         append_header(builder, config.headers[1][1], config.headers[1][2]),
         [config EXCEPT !.headers = Tail(config.headers)], file_response)

\* server.rs add_custom_headers; config.headers is given in the order the
\* HashMap iterates.
RECURSIVE add_custom_headers(_, _, _)
add_custom_headers(builder, config, file_response) ==
  IF config.headers = <<>> THEN builder
  ELSE add_custom_headers(
         insert_header(builder, config.headers[1][1], config.headers[1][2]),
         [config EXCEPT !.headers = Tail(config.headers)], file_response)

\* server.rs build_success_response with its headers: HttpResponse::Ok(),
\* content_type, the content, the three add_ functions in order, the body.
build_success_response_of(req, config, file_response, encoder) ==
  LET typed == insert_header(<<>>, CONTENT_TYPE, file_response.mime)
      processed == process_content_with_compression(req, config, file_response,
                                                    typed, encoder)
      content == processed[1]
      cached == add_cache_headers(processed[2], config, file_response)
      with_cors == add_cors_headers(cached, config, file_response)
      builder == add_custom_headers(with_cors, config, file_response)
  IN [status |-> 200, headers |-> builder, body |-> content]

\* ResponseBuilder::with_static_file_headers; the duration since the epoch
\* is an error for a time before it.
with_static_file_headers(headers, mime_type, modified) ==
  LET with_content_type == insert_header(headers, CONTENT_TYPE, mime_type)
  IN IF modified # None /\ unwrap(modified) >= 0
       THEN insert_header(with_content_type, LAST_MODIFIED,
                          http_date(unwrap(modified)))
       ELSE with_content_type

\* StaticFileHandler::serve_file once the file is read: the response built
\* from the buffer, the MIME type and the modification time.
serve_file_response(buffer, mime, modified, req, encoder) ==
  LET response_builder == with_static_file_headers(<<>>, mime, modified)
      accept_encoding == IF req.accept_encoding # None
                           THEN unwrap(req.accept_encoding) ELSE <<>>
      compressed == compress_if_needed(buffer, mime, accept_encoding, encoder)
      compressed_data == compressed[1]
      encoded == compressed[2]
  IN [status |-> 200,
      headers |-> IF encoded # None
                    THEN insert_header(response_builder, CONTENT_ENCODING,
                                       unwrap(encoded))
                    ELSE response_builder,
      body |-> compressed_data]

text_plain == <<"t", "e", "x", "t", "/", "p", "l", "a", "i", "n">>
text_css == <<"t", "e", "x", "t", "/", "c", "s", "s">>
text_html == <<"t", "e", "x", "t", "/", "h", "t", "m", "l">>
image_png == <<"i", "m", "a", "g", "e", "/", "p", "n", "g">>
application_json == <<"a", "p", "p", "l", "i", "c", "a", "t", "i", "o", "n", "/", "j", "s", "o", "n">>

\* The MIME types that from_path gives the files served.
MimeTypes == {text_plain, text_css, text_html, image_png, application_json}

\* File sizes in bytes.
ContentLens == {1023, 1024, 2000}

\* Modification times in seconds since the epoch; None when the metadata or
\* the time could not be had.
ModifiedTimes == {None, Some(-1), Some(1)}

gzip_br == <<"g", "z", "i", "p", ",", " ", "b", "r">>
br_gzip == <<"b", "r", ",", " ", "g", "z", "i", "p">>
deflate_gzip == <<"d", "e", "f", "l", "a", "t", "e", ",", " ", "g", "z", "i", "p">>
GZIP == <<"G", "Z", "I", "P">>
identity == <<"i", "d", "e", "n", "t", "i", "t", "y">>

\* Accept-Encoding headers of requests; None when the header is absent.
AcceptEncodings ==
  {None, Some(gzip_br), Some(br_gzip), Some(deflate_gzip), Some(deflate),
   Some(GZIP), Some(identity)}

EncoderOutcomes == {"ok", "error"}

no_store == <<"n", "o", "-", "s", "t", "o", "r", "e">>
Cache_Control == <<"C", "a", "c", "h", "e", "-", "C", "o", "n", "t", "r", "o", "l">>
Content_Type == <<"C", "o", "n", "t", "e", "n", "t", "-", "T", "y", "p", "e">>
X_Frame_Options == <<"X", "-", "F", "r", "a", "m", "e", "-", "O", "p", "t", "i", "o", "n", "s">>
DENY == <<"D", "E", "N", "Y">>
https_a == <<"h", "t", "t", "p", "s", ":", "/", "/", "a">>

\* ServeConfig.headers of the configurations tried, as iterated.
CustomHeaders ==
  {<<>>,
   <<<<Cache_Control, no_store>>>>,
   <<<<Content_Type, text_plain>>, <<CONTENT_ENCODING, identity>>>>,
   <<<<X_Frame_Options, DENY>>>>,
   <<<<ACCESS_CONTROL_ALLOW_ORIGIN, https_a>>, <<LAST_MODIFIED, DENY>>>>}

ServeConfigs ==
  [compression : BOOLEAN, cache : BOOLEAN, cors : BOOLEAN,
   headers : CustomHeaders]

AssemblyIdle ==
  /\ serve_config = [compression |-> TRUE, cache |-> TRUE, cors |-> FALSE,
                     headers |-> <<>>]
  /\ asm_req = None
  /\ asm_file = None
  /\ asm_encoder = None
  /\ actix_response = None
  /\ hyper_response = None

AssemblyStart ==
  /\ serve_config \in ServeConfigs
  /\ asm_req = None
  /\ asm_file = None
  /\ asm_encoder = None
  /\ actix_response = None
  /\ hyper_response = None

\* One file read in full, answered by server.rs and by the static handler.
BuildResponse ==
  /\ asm_req = None
  /\ \E accept \in AcceptEncodings, mime \in MimeTypes, len \in ContentLens,
        modified \in ModifiedTimes, encoder \in EncoderOutcomes :
       LET req == [accept_encoding |-> accept]
           file_response == [content |-> Raw(len), mime |-> mime,
                             modified |-> modified]
       IN /\ asm_req' = Some(req)
          /\ asm_file' = Some(file_response)
          /\ asm_encoder' = Some(encoder)
          /\ actix_response' =
               Some(build_success_response_of(req, serve_config, file_response,
                                              encoder))
          /\ hyper_response' =
               Some(serve_file_response(Raw(len), mime, modified, req, encoder))
  /\ UNCHANGED serve_config
  /\ UNCHANGED notAssembly

AssemblyNextRequest ==
  /\ asm_req # None
  /\ asm_req' = None
  /\ asm_file' = None
  /\ asm_encoder' = None
  /\ actix_response' = None
  /\ hyper_response' = None
  /\ UNCHANGED serve_config
  /\ UNCHANGED notAssembly

\* The values a response carries for a header name.
HeaderValues(resp, name) ==
  {resp.headers[i][2] : i \in {k \in DOMAIN resp.headers :
                                 resp.headers[k][1] = name}}
HasHeader(resp, name) == HeaderValues(resp, name) # {}
Responses == {unwrap(actix_response), unwrap(hyper_response)}

\* The file being answered and what the request and configuration say of it.
Answered == asm_req # None
FileContent == unwrap(asm_file).content
FileMime == unwrap(asm_file).mime
CustomNames ==
  {HeaderName(serve_config.headers[i][1]) : i \in DOMAIN serve_config.headers}
CompressionApplies ==
  /\ serve_config.compression
  /\ FileContent.len >= MinCompressLen
  /\ should_compress(FileMime)

\* C22: in both pipelines a body is compressed only when compression is
\* enabled in the configuration, the content has at least 1024 bytes and the
\* MIME type is compressible; a body of fewer than 1024 bytes is returned
\* unchanged and without a Content-Encoding header.
C22_CompressionOnlyWhenEligible ==
  (Answered /\ CONTENT_ENCODING \notin CustomNames) =>
    \A resp \in Responses :
      /\ resp.body # FileContent => CompressionApplies
      /\ FileContent.len < MinCompressLen =>
           /\ resp.body = FileContent
           /\ ~HasHeader(resp, CONTENT_ENCODING)

\* The first of Brotli, Gzip, Deflate whose token is within the header, or
\* None for identity.
Preferred(accept) ==
  IF accept = None THEN None
  ELSE IF contains(unwrap(accept), br) THEN Some(br)
  ELSE IF contains(unwrap(accept), gzip) THEN Some(gzip)
  ELSE IF contains(unwrap(accept), deflate) THEN Some(deflate)
  ELSE None

\* C23: when compression applies, the encoding of the response is the first
\* of Brotli, Gzip, Deflate whose token is a substring of the Accept-Encoding
\* header, whatever the order the client lists them in, and identity if none
\* is; "br, gzip" on 2000 bytes of text/plain gives Content-Encoding: br.
C23_EncodingPreference ==
  (/\ Answered
   /\ CompressionApplies
   /\ unwrap(asm_encoder) = "ok"
   /\ CONTENT_ENCODING \notin CustomNames
   /\ unwrap(asm_req).accept_encoding # None
        => to_lowercase(unwrap(unwrap(asm_req).accept_encoding))
             = unwrap(unwrap(asm_req).accept_encoding)) =>
    \A resp \in Responses :
      LET preferred == Preferred(unwrap(asm_req).accept_encoding)
      IN IF preferred = None
           THEN resp.body = FileContent /\ ~HasHeader(resp, CONTENT_ENCODING)
           ELSE /\ HeaderValues(resp, CONTENT_ENCODING) = {unwrap(preferred)}
                /\ resp.body.form = "encoded"

\* The label of the encoding a byte vector is in.
EncodingLabel(bytes) ==
  CASE bytes.encoding = "gzip" -> gzip
    [] bytes.encoding = "br" -> br
    [] bytes.encoding = "deflate" -> deflate
    [] OTHER -> <<>>

\* C24: when the compressor fails the response carries the original content
\* and no Content-Encoding header; a Content-Encoding header is present only
\* on a body that is the whole encoding of the file content in that encoding.
C24_CompressionFailureFallsBack ==
  (Answered /\ CONTENT_ENCODING \notin CustomNames) =>
    \A resp \in Responses :
      /\ resp.status = 200
      /\ unwrap(asm_encoder) = "error" =>
           resp.body = FileContent /\ ~HasHeader(resp, CONTENT_ENCODING)
      /\ HasHeader(resp, CONTENT_ENCODING) =>
           /\ resp.body.form = "encoded"
           /\ resp.body.len = FileContent.len
           /\ HeaderValues(resp, CONTENT_ENCODING) = {EncodingLabel(resp.body)}

\* C25: a successful file response has Cache-Control: public, max-age=3600
\* exactly when caching is enabled and the MIME type is cacheable; it has
\* Last-Modified only then and only when a modification time was obtained;
\* without a modification time the response is still a success.
C25_CacheHeaders ==
  (/\ Answered
   /\ CACHE_CONTROL \notin CustomNames
   /\ LAST_MODIFIED \notin CustomNames) =>
    \A resp \in Responses :
      /\ resp.status = 200
      /\ HasHeader(resp, CACHE_CONTROL)
           <=> (serve_config.cache /\ is_cacheable(FileMime))
      /\ HasHeader(resp, CACHE_CONTROL) =>
           HeaderValues(resp, CACHE_CONTROL) = {public_max_age_3600}
      /\ HasHeader(resp, LAST_MODIFIED) =>
           /\ serve_config.cache /\ is_cacheable(FileMime)
           /\ unwrap(asm_file).modified # None

\* The response that the same request gets with no custom headers set.
AutomaticResponse ==
  build_success_response_of(unwrap(asm_req),
                            [serve_config EXCEPT !.headers = <<>>],
                            unwrap(asm_file), unwrap(asm_encoder))
HeaderNames(resp) == {resp.headers[i][1] : i \in DOMAIN resp.headers}
ValueCount(resp, name) ==
  Cardinality({i \in DOMAIN resp.headers : resp.headers[i][1] = name})

\* C26: the custom headers are applied last and the last write of a name
\* wins: a name set both automatically and by the custom map has exactly one
\* value in the response, the custom one, and every other automatic header
\* keeps its automatic value.
C26_CustomHeadersOverride ==
  Answered =>
    LET resp == unwrap(actix_response)
    IN /\ \A i \in DOMAIN serve_config.headers :
            LET name == HeaderName(serve_config.headers[i][1])
            IN /\ ValueCount(resp, name) = 1
               /\ HeaderValues(resp, name) = {serve_config.headers[i][2]}
       /\ \A name \in HeaderNames(AutomaticResponse) \ CustomNames :
            /\ ValueCount(resp, name) = 1
            /\ HeaderValues(resp, name) = HeaderValues(AutomaticResponse, name)
       /\ HeaderNames(resp) = HeaderNames(AutomaticResponse) \cup CustomNames
       /\ resp.body = AutomaticResponse.body

\* A style sheet answered with caching on and a custom Cache-Control: the name
\* is set automatically and by the custom map, next to automatic headers the
\* map does not name.
C26_Witness ==
  /\ Answered
  /\ serve_config.cache /\ serve_config.cors
  /\ FileMime = text_css
  /\ unwrap(asm_file).modified # None
  /\ CACHE_CONTROL \in CustomNames
  /\ CACHE_CONTROL \in HeaderNames(AutomaticResponse)
  /\ HeaderValues(unwrap(actix_response), CACHE_CONTROL) = {no_store}

\* C27: every request that handle_request has dealt with, whatever the
\* routing and the filesystem gave (a directory that cannot be read for its
\* listing included), is answered by a response of status 200, 403, 404 or
\* 500; no error comes out of handle_request.
C27_EveryFailureIsAResponse ==
  disp_pc = "done" =>
    /\ response # None
    /\ unwrap(response).ok
    /\ unwrap(response).value.status \in {200, 403, 404, 500}

(***************************************************************************)
(* A RewriteRule under construction: RewriteRule::new, then last(..) and   *)
(* redirect(..) in any number and order, then apply.                        *)
(***************************************************************************)
\* Statuses given to redirect(.., status: u16).
RedirectStatuses == {0, 200, 301, 302, 307, 65535}

BuildPatterns == {<<"^", "/", "a", "$">>, <<"a">>, <<"[">>}
BuildReplacements == {slash_b, <<"b">>}

BuildIdle ==
  /\ built_rule = None
  /\ apply_path = None
  /\ apply_result = None

\* RewriteRule::new(pattern, replacement), when the pattern compiles
BuildNew ==
  /\ \E pattern \in BuildPatterns, replacement \in BuildReplacements :
       /\ RewriteRule_new(pattern, replacement).ok
       /\ built_rule' = Some(RewriteRule_new(pattern, replacement).value)
  /\ apply_path' = None
  /\ apply_result' = None
  /\ UNCHANGED notBuild

\* rule.last(last)
BuildLast ==
  /\ built_rule # None
  /\ \E last \in BOOLEAN :
       built_rule' = Some(RewriteRule_last(unwrap(built_rule), last))
  /\ apply_path' = None
  /\ apply_result' = None
  /\ UNCHANGED notBuild

\* rule.redirect(redirect, status)
BuildRedirect ==
  /\ built_rule # None
  /\ \E redirect \in BOOLEAN, status \in RedirectStatuses :
       built_rule' = Some(RewriteRule_redirect(unwrap(built_rule), redirect, status))
  /\ apply_path' = None
  /\ apply_result' = None
  /\ UNCHANGED notBuild

\* rule.apply(path)
BuildApply ==
  /\ built_rule # None
  /\ \E path \in RewritePaths :
       /\ apply_path' = Some(path)
       /\ apply_result' = RewriteRule_apply(unwrap(built_rule), path)
  /\ UNCHANGED built_rule
  /\ UNCHANGED notBuild

\* C28: in every rule built by new, last and redirect, and in every
\* RewriteResult that apply makes from it, the redirect status is absent or
\* one of 301 and 302, and it is present only when the rule is a redirect.
C28_RedirectStatusDomain ==
  /\ built_rule # None =>
       /\ unwrap(built_rule).redirect_status \in {None, Some(301), Some(302)}
       /\ unwrap(built_rule).redirect_status # None => unwrap(built_rule).redirect
  /\ apply_result # None =>
       /\ unwrap(apply_result).redirect_status \in {None, Some(301), Some(302)}
       /\ unwrap(apply_result).redirect_status # None
            => unwrap(apply_result).is_redirect

\* C29: the catch-all /* -> static is the first route of the default list and
\* of every virtual host, and add_route appends: whatever routes were added,
\* a path that begins with "/" is routed to that first route, by Router::route
\* and by VirtualHost::match_route; no added route is returned and there is
\* no NoMatchingRoute for such a path.
C29_CatchAllShadowsAddedRoutes ==
  LET static == Route_new(catch_all, "static").value
  IN /\ (route_result # None /\ starts_with(unwrap(route_req).path, <<"/">>)) =>
          /\ unwrap(route_result) = Ok(static)
          /\ default_routes[1] = static
          /\ \A i \in DOMAIN vhosts : vhosts[i].routes[1] = static
     /\ (vhost_route # None /\ starts_with(unwrap(vhost_route).path, <<"/">>)) =>
          /\ unwrap(vhost_route).route = Some(static)
          /\ unwrap(vhost).routes[1] = static

\* A request for /api/x without a Host header, after add_route has added
\* /api/* -> api, which matches the path.
C29_Witness ==
  /\ route_result # None
  /\ unwrap(route_req).path = api_x
  /\ unwrap(route_req).host = None
  /\ Len(default_routes) = 2
  /\ default_routes[2] = Route_new(api_star, "api").value
  /\ Route_matches(default_routes[2], api_x)
  /\ unwrap(route_result).value.handler_type = "static"

\* C30: authenticate never returns Ok(false): its result is Ok(true) or one
\* of the errors MissingCredentials and InvalidCredentials, and it is Ok only
\* when the parsed user name has the parsed password in the credential map.
C30_NeverOkFalse ==
  auth_result # None =>
    LET result == unwrap(auth_result)
        header == unwrap(auth_header)
    IN /\ result # Ok(FALSE)
       /\ \/ result = Ok(TRUE)
          \/ result = Err("MissingCredentials")
          \/ result = Err("InvalidCredentials")
       /\ result.ok =>
            /\ header # None
            /\ parse_basic_auth(unwrap(header)).ok
            /\ LET parsed == parse_basic_auth(unwrap(header)).value
               IN /\ parsed[1] \in DOMAIN credentials
                  /\ credentials[parsed[1]] = parsed[2]

\* A request whose header parses to a stored user name with a password other
\* than the stored one.
C30_Witness ==
  /\ auth_result # None
  /\ unwrap(auth_header) # None
  /\ to_str_ok(unwrap(unwrap(auth_header)))
  /\ parse_basic_auth(unwrap(unwrap(auth_header))).ok
  /\ LET parsed == parse_basic_auth(unwrap(unwrap(auth_header))).value
     IN /\ parsed[1] \in DOMAIN credentials
        /\ credentials[parsed[1]] # parsed[2]
  /\ unwrap(auth_result) = Err("InvalidCredentials")

(***************************************************************************)
(* Specifications                                                          *)
(***************************************************************************)

NextPath == GetFilePath \/ ServeFile \/ NextRequest

InitPath ==
  PathStart /\ RouteMatchIdle /\ VhostIdle /\ RouterIdle
    /\ RewriteIdle /\ AclIdle /\ AuthIdle /\ DispIdle
    /\ ListingIdle
    /\ AssemblyIdle
    /\ BuildIdle

SpecPath == InitPath /\ [][NextPath]_vars

NextRouteMatch == RouteNew \/ RouteMatches

InitRouteMatch ==
  PathIdle /\ RouteMatchIdle /\ VhostIdle /\ RouterIdle
    /\ RewriteIdle /\ AclIdle /\ AuthIdle /\ DispIdle
    /\ ListingIdle
    /\ AssemblyIdle
    /\ BuildIdle

SpecRouteMatch == InitRouteMatch /\ [][NextRouteMatch]_vars

NextVhost == VirtualHostNew \/ VirtualHostMatches

InitVhost ==
  PathIdle /\ RouteMatchIdle /\ VhostIdle /\ RouterIdle
    /\ RewriteIdle /\ AclIdle /\ AuthIdle /\ DispIdle
    /\ ListingIdle
    /\ AssemblyIdle
    /\ BuildIdle

SpecVhost == InitVhost /\ [][NextVhost]_vars

NextRoute ==
  \/ RouterAddRoute
  \/ RouterRoute
  \/ RouterNextRequest
  \/ VirtualHostAddRoute
  \/ VirtualHostMatchRoute
  \/ VirtualHostNextRequest

InitRoute ==
  PathIdle /\ RouteMatchIdle /\ RouterStart /\ RewriteIdle
    /\ AclIdle /\ AuthIdle /\ DispIdle
    /\ ListingIdle
    /\ AssemblyIdle
    /\ BuildIdle

SpecRoute == InitRoute /\ [][NextRoute]_vars

NextRewrite == RewriterAddRule \/ RewriterProcess \/ RewriteNextRequest

InitRewrite ==
  PathIdle /\ RouteMatchIdle /\ VhostIdle /\ RouterIdle
    /\ RewriteIdle /\ AclIdle /\ AuthIdle /\ DispIdle
    /\ ListingIdle
    /\ AssemblyIdle
    /\ BuildIdle

SpecRewrite == InitRewrite /\ [][NextRewrite]_vars

NextAcl == AddRule \/ CheckAccess

InitAcl ==
  PathIdle /\ RouteMatchIdle /\ VhostIdle /\ RouterIdle
    /\ RewriteIdle /\ AclStart /\ AuthIdle /\ DispIdle
    /\ ListingIdle
    /\ AssemblyIdle
    /\ BuildIdle

SpecAcl == InitAcl /\ [][NextAcl]_vars

NextAuth == AddUser \/ Authenticate \/ AuthNextRequest

InitAuth ==
  PathIdle /\ RouteMatchIdle /\ VhostIdle /\ RouterIdle
    /\ RewriteIdle /\ AclIdle /\ AuthIdle /\ DispIdle
    /\ ListingIdle
    /\ AssemblyIdle
    /\ BuildIdle

SpecAuth == InitAuth /\ [][NextAuth]_vars

NextDisp == Receive \/ Dispatch \/ Serve \/ Respond

InitDisp ==
  DispStart /\ RouteMatchIdle /\ VhostIdle /\ RewriteIdle /\ AclIdle /\ AuthIdle
    /\ ListingIdle
    /\ AssemblyIdle
    /\ BuildIdle

SpecDisp == InitDisp /\ [][NextDisp]_vars

NextListing == CreateEntry \/ ListDirectory \/ ListingNextRequest

InitListing ==
  PathIdle /\ RouteMatchIdle /\ VhostIdle /\ RouterIdle
    /\ RewriteIdle /\ AclIdle /\ AuthIdle /\ DispIdle
    /\ ListingStart
    /\ AssemblyIdle
    /\ BuildIdle

SpecListing == InitListing /\ [][NextListing]_vars

NextAssembly == BuildResponse \/ AssemblyNextRequest

InitAssembly ==
  PathIdle /\ RouteMatchIdle /\ VhostIdle /\ RouterIdle
    /\ RewriteIdle /\ AclIdle /\ AuthIdle /\ DispIdle
    /\ ListingIdle /\ AssemblyStart
    /\ BuildIdle

SpecAssembly == InitAssembly /\ [][NextAssembly]_vars

NextBuild == BuildNew \/ BuildLast \/ BuildRedirect \/ BuildApply

InitBuild ==
  PathIdle /\ RouteMatchIdle /\ VhostIdle /\ RouterIdle
    /\ RewriteIdle /\ AclIdle /\ AuthIdle /\ DispIdle
    /\ ListingIdle /\ AssemblyIdle /\ BuildIdle

SpecBuild == InitBuild /\ [][NextBuild]_vars

====
